---- MODULE Spec2Model ----
(***************************************************************************)
(* A model of the window/session orchestration of                          *)
(* src/vscode/src/vs/code/electron-main/windows.ts (class WindowsManager): *)
(* open(), the shutdown snapshot, session restore, window placement and    *)
(* the wait-marker listener.                                               *)
(***************************************************************************)
EXTENDS Integers, Sequences, FiniteSets, TLC

VARIABLES
    WINDOWS,                \* WindowsManager.WINDOWS: the live windows, in creation order
    windowsState,           \* this.windowsState: the state restored at construction
    lastClosedWindowState,  \* this.lastClosedWindowState
    stored,                 \* stateService item 'windowsState' (the persisted snapshot)
    quitRequested,          \* lifecycleMainService.quitRequested
    pendingLoads,           \* loads waiting for lifecycleMainService.unload() to resolve
    waitListeners,          \* live subscriptions made by waitForWindowCloseOrLoad
    completed,              \* wait markers deleted so far, in order of deletion
    phase,                  \* "startup" | "running" | "quitting"
    session,                \* the number of the application run, from 1
    calls,                  \* the number of open() calls of this run so far
    lastOpen                \* what the last open() call was given and what it did

vars == <<WINDOWS, windowsState, lastClosedWindowState, stored, quitRequested,
          pendingLoads, waitListeners, completed, phase, session, calls, lastOpen>>

----------------------------------------------------------------------------
(* Bounds of the model *)

MaxWindows == 3
MaxTargets == 2
MaxPending == 2
MaxShifts == 8
MaxMarkers == 2
MaxSessions == 2
MaxCalls == 4

----------------------------------------------------------------------------
(* Sequences *)

Range(s) == {s[i] : i \in 1..Len(s)}

RECURSIVE SeqMap(_, _)
SeqMap(F(_), s) == IF s = <<>> THEN <<>> ELSE <<F(Head(s))>> \o SeqMap(F, Tail(s))

\* arrays.distinct(array, keyFn): the first element of each key, in order
RECURSIVE distinctFrom(_, _, _)
distinctFrom(K(_), s, seen) ==
    IF s = <<>> THEN <<>>
    ELSE IF K(Head(s)) \in seen THEN distinctFrom(K, Tail(s), seen)
    ELSE <<Head(s)>> \o distinctFrom(K, Tail(s), seen \cup {K(Head(s))})

distinct(K(_), s) == distinctFrom(K, s, {})

Identity(x) == x

\* the sequences over S of length n, and of length up to n
RECURSIVE SeqsOfLen(_, _)
SeqsOfLen(S, n) == IF n = 0 THEN {<<>>} ELSE {Append(s, x) : s \in SeqsOfLen(S, n - 1), x \in S}

SeqsUpTo(S, n) == UNION {SeqsOfLen(S, k) : k \in 0..n}

Min(S) == CHOOSE x \in S : \A y \in S : x <= y
Max(S) == CHOOSE x \in S : \A y \in S : x >= y

----------------------------------------------------------------------------
(* URIs, remote authorities, workspaces *)

NoUri == [scheme |-> "", authority |-> "", path |-> ""]
FileUri(p) == [scheme |-> "file", authority |-> "", path |-> p]
RemoteUri(a, p) == [scheme |-> "vscode-remote", authority |-> a, path |-> p]

\* getRemoteAuthority(uri): the authority of a vscode-remote URI, else undefined
getRemoteAuthority(uri) == IF uri.scheme = "vscode-remote" THEN uri.authority ELSE ""

\* The file system ignores case: "/A" and "/a" name the same folder.
LowerCase(p) == IF p = "/A" THEN "/a" ELSE p

\* getComparisonKey(uri): the normalized string two URIs are compared by
getComparisonKey(uri) == [uri EXCEPT !.path = LowerCase(uri.path)]

\* isEqual(a, b) of vs/base/common/resources
isEqual(a, b) == getComparisonKey(a) = getComparisonKey(b)

\* A workspace identifier {id, configPath}; folders is what its config file
\* lists (no id is 0).
NoWorkspace == [id |-> 0, configPath |-> NoUri, folders |-> <<>>]

\* The config files of the untitled workspaces that can exist at a time;
\* the i-th has the id 10 + i.
UntitledConfigPaths == <<"/u1/workspace.json", "/u2/workspace.json", "/u3/workspace.json",
                         "/u4/workspace.json", "/u5/workspace.json", "/u6/workspace.json">>

UntitledIds == {10 + i : i \in 1..Len(UntitledConfigPaths)}

UntitledWorkspace(id, folders) ==
    [id |-> id, configPath |-> FileUri(UntitledConfigPaths[id - 10]), folders |-> folders]

----------------------------------------------------------------------------
(* Backup paths.  A backup path is made of the identity it was registered    *)
(* for; basename() of an empty window's backup path is its backup folder.    *)

NoBackup == [kind |-> "", ws |-> 0, folder |-> NoUri, slot |-> 0]

\* backupMainService.registerWorkspaceBackupSync(...)
registerWorkspaceBackupSync(workspace) == [NoBackup EXCEPT !.kind = "workspace", !.ws = workspace.id]

\* backupMainService.registerFolderBackupSync(folderUri)
registerFolderBackupSync(folderUri) == [NoBackup EXCEPT !.kind = "folder", !.folder = getComparisonKey(folderUri)]

\* join(environmentService.backupHome.fsPath, backupFolder)
EmptyBackupPath(backupFolder) == [NoBackup EXCEPT !.kind = "empty", !.slot = backupFolder]

\* basename(backupPath)
basename(backupPath) == backupPath.slot

----------------------------------------------------------------------------
(* Windows (ICodeWindow) and window snapshots (IWindowState) *)

Modes == {"normal", "maximized", "fullscreen"}

\* defaultWindowState(): width and height of a new window
DefaultWindowSize == [width |-> 1024, height |-> 768]

\* screen.getAllDisplays(): the displays a window may be placed on
Displays == { [x |-> 0, y |-> 0, width |-> 1084, height |-> 828],
              [x |-> 1084, y |-> 0, width |-> 1144, height |-> 888] }

PrimaryDisplay == [x |-> 0, y |-> 0, width |-> 1084, height |-> 828]

NewWindow(id, ui, edp, eth) ==
    [ id |-> id,
      openedWorkspace |-> NoWorkspace,
      openedFolderUri |-> NoUri,
      backupPath |-> NoBackup,
      remoteAuthority |-> "",
      isReady |-> FALSE,
      extensionDevelopmentPath |-> edp,
      isExtensionTestHost |-> eth,
      uiState |-> ui,
      lastFocusTime |-> 0,
      closing |-> FALSE ]

\* win.isExtensionDevelopmentHost
isExtensionDevelopmentHost(win) == win.extensionDevelopmentPath # ""

\* win.serializeWindowState()
serializeWindowState(win) == win.uiState

\* win.getBounds()
getBounds(win) == [x |-> win.uiState.x, y |-> win.uiState.y]

toWindowState(win) ==
    [ workspace |-> win.openedWorkspace,
      folderUri |-> win.openedFolderUri,
      backupPath |-> win.backupPath,
      remoteAuthority |-> win.remoteAuthority,
      uiState |-> serializeWindowState(win) ]

EmptyWindowsState == [lastActiveWindow |-> <<>>, lastPluginDevelopmentHostWindow |-> <<>>, openedWindows |-> <<>>]

----------------------------------------------------------------------------
(* The registry lookups of vs/platform/windows/node/window.ts *)

IndexOfId(windows, id) ==
    IF \E i \in 1..Len(windows) : windows[i].id = id
    THEN Min({i \in 1..Len(windows) : windows[i].id = id})
    ELSE 0

HasWindow(windows, id) == IndexOfId(windows, id) # 0

WindowById(windows, id) == windows[IndexOfId(windows, id)]

FirstId(windows) == IF windows = <<>> THEN 0 ELSE windows[1].id

\* getLastActiveWindow(windows): the first window with the latest focus time
lastActiveOf(windows) ==
    IF windows = <<>> THEN 0
    ELSE LET latest == Max({windows[i].lastFocusTime : i \in 1..Len(windows)})
         IN  FirstId(SelectSeq(windows, LAMBDA w : w.lastFocusTime = latest))

\* findWindowOnWorkspace(windows, workspace) for a workspace identifier
findWindowOnWorkspace(windows, workspace) ==
    FirstId(SelectSeq(windows, LAMBDA w : w.openedWorkspace.id # 0 /\ w.openedWorkspace.id = workspace.id))

\* a lookup that finds no window
\* findWindowOnWorkspace(windows, folderUri) for a single-folder identifier
findWindowOnFolderUri(windows, folderUri) ==
    FirstId(SelectSeq(windows, LAMBDA w : w.openedFolderUri # NoUri /\ isEqual(w.openedFolderUri, folderUri)))

----------------------------------------------------------------------------
(* The state one handler works on.  S.WINDOWS .. S.completed are the        *)
(* manager's fields; created, focusLog, loadLog and sendLog record what the *)
(* handler did (windows created, focus() calls, window.load() calls and     *)
(* sendWhenReady() calls, in order).                                        *)

NoFileInputs == [present |-> FALSE, filesToOpenOrCreate |-> <<>>, filesToDiff |-> <<>>, filesToWait |-> FALSE, remoteAuthority |-> ""]

WindowIdsIn(S) ==
    {S.WINDOWS[i].id : i \in 1..Len(S.WINDOWS)}
        \cup {S.pendingLoads[i].id : i \in 1..Len(S.pendingLoads)}
        \cup {l.windowId : l \in S.waitListeners.close \cup S.waitListeners.load}

FreshWindowId(S) == Min((1..(Cardinality(WindowIdsIn(S)) + 1)) \ WindowIdsIn(S))

SnapshotsIn(S) ==
    Range(S.windowsState.openedWindows) \cup Range(S.windowsState.lastActiveWindow)
        \cup Range(S.windowsState.lastPluginDevelopmentHostWindow) \cup Range(S.lastClosedWindowState)

BackupSlotsIn(S) ==
    {S.WINDOWS[i].backupPath.slot : i \in 1..Len(S.WINDOWS)}
        \cup {S.pendingLoads[i].configuration.backupPath.slot : i \in 1..Len(S.pendingLoads)}
        \cup {S.pendingLoads[i].backupFolder : i \in 1..Len(S.pendingLoads)}
        \cup {o.backupPath.slot : o \in SnapshotsIn(S)}
        \cup S.reservedSlots

\* the random folder name registerEmptyWindowBackupSync() makes up: one not in use
FreshBackupFolder(S) == Min((1..(Cardinality(BackupSlotsIn(S)) + 1)) \ BackupSlotsIn(S))

\* backupMainService.registerEmptyWindowBackupSync(backupFolder, remoteAuthority)
registerEmptyWindowBackupSync(S, backupFolder) ==
    EmptyBackupPath(IF backupFolder # 0 THEN backupFolder ELSE FreshBackupFolder(S))

\* window.focus(): the window becomes the last active one
focusWindow(S, id) ==
    LET i == IndexOfId(S.WINDOWS, id)
        latest == Max({S.WINDOWS[j].lastFocusTime : j \in 1..Len(S.WINDOWS)})
    IN  [S EXCEPT !.WINDOWS[i].lastFocusTime = latest + 1, !.focusLog = Append(@, id)]

\* the listener of onWindowsCountChanged set up in registerListeners()
\* a listener that keeps the last closed window state when a window opens
onWindowsCountChangedKeep(S, oldCount, newCount) == S

onWindowsCountChanged(S, oldCount, newCount) ==
    IF newCount - oldCount > 0 THEN [S EXCEPT !.lastClosedWindowState = <<>>] ELSE S

\* handler(id) of waitForWindowCloseOrLoad, run for the promise of one marker:
\* both listeners are disposed and the promise resolves (the marker is
\* deleted by the then-callback in open(), once per promise).
waitHandlerDisposeNone(S, l, id) ==
    IF id = l.windowId
    THEN [S EXCEPT !.completed = IF l.marker \in Range(@) THEN @ ELSE Append(@, l.marker)]
    ELSE S

waitHandler(S, l, id) ==
    IF id = l.windowId
    THEN [S EXCEPT !.waitListeners.close = @ \ {l},
                   !.waitListeners.load = @ \ {l},
                   !.completed = IF l.marker \in Range(@) THEN @ ELSE Append(@, l.marker)]
    ELSE S

\* Emitter.fire(id): every listener registered when the event fires is called
RECURSIVE fireTo(_, _, _)
fireTo(S, listeners, id) ==
    IF listeners = {} THEN S
    ELSE LET l == CHOOSE x \in listeners : \A y \in listeners : x.marker <= y.marker
         IN  fireTo(waitHandler(S, l, id), listeners \ {l}, id)

fireOnWindowLoad(S, id) == fireTo(S, S.waitListeners.load, id)

fireOnWindowClose(S, id) == fireTo(S, S.waitListeners.close, id)

\* waitForWindowCloseOrLoad(windowId), with the then-callback of open()
waitForWindowCloseOrLoad(S, windowId) ==
    LET l == [windowId |-> windowId, marker |-> S.waitListeners.issued + 1]
    IN  [S EXCEPT !.waitListeners.close = @ \cup {l},
                  !.waitListeners.load = @ \cup {l},
                  !.waitListeners.issued = @ + 1]

----------------------------------------------------------------------------
(* Placement of a new window: getNewWindowState and ensureNoOverlap *)

OverlapStep == 30

\* the loop of ensureNoOverlap, with the number of shifts made so far
RECURSIVE shiftWhileOverlap(_, _, _)
shiftWhileOverlap(existingWindowBounds, state, shifts) ==
    IF shifts < MaxShifts /\ \E b \in existingWindowBounds : b.x = state.x \/ b.y = state.y
    THEN shiftWhileOverlap(existingWindowBounds,
                           [state EXCEPT !.x = @ + OverlapStep, !.y = @ + OverlapStep],
                           shifts + 1)
    ELSE [state |-> state, shifts |-> shifts]

ensureNoOverlapNoShift(windows, state) == [state |-> state, shifts |-> 0]

ensureNoOverlap(windows, state) ==
    IF Len(windows) = 0
    THEN [state |-> state, shifts |-> 0]
    ELSE shiftWhileOverlap({getBounds(windows[i]) : i \in 1..Len(windows)}, state, 0)

\* the new window is put at the origin of the primary display
getNewWindowStateAtOrigin(S, configuration, env) ==
    [state |-> [x |-> 0, y |-> 0, mode |-> "normal"], hasDefaultState |-> TRUE, from |-> "default",
     index |-> 0, shifts |-> 0]

\* the default state centered on the display
centeredState(display) ==
    [ x |-> (2 * display.x + display.width - DefaultWindowSize.width) \div 2,
      y |-> (2 * display.y + display.height - DefaultWindowSize.height) \div 2,
      mode |-> "normal" ]

\* getNewWindowState that takes "inherit" for "fullscreen" and restores nothing
getNewWindowStateInheritFullscreen(S, configuration, env) ==
    [state |-> [centeredState(env.display) EXCEPT
                    !.mode = IF env.newWindowDimensions \in {"fullscreen", "inherit"} THEN "fullscreen" ELSE "normal"],
     hasDefaultState |-> TRUE, from |-> "default", index |-> 0, shifts |-> 0]

\* The result names where the state object comes from (from), because the
\* stored state objects are returned by reference.
getNewWindowState(S, configuration, env) ==
    LET lastActive == lastActiveOf(S.WINDOWS)
        opened == S.windowsState.openedWindows
        host == S.windowsState.lastPluginDevelopmentHostWindow
        restore == ~configuration.extensionTestsPath
        forWorkspace == {i \in 1..Len(opened) : opened[i].workspace.id # 0
                                /\ opened[i].workspace.id = configuration.workspace.id}
        forFolder == {i \in 1..Len(opened) : opened[i].folderUri # NoUri
                                /\ isEqual(opened[i].folderUri, configuration.folderUri)}
        forEmpty == {i \in 1..Len(opened) : opened[i].backupPath = configuration.backupPath}
        lastActiveState == IF S.lastClosedWindowState # <<>> THEN S.lastClosedWindowState
                           ELSE S.windowsState.lastActiveWindow
        centered == centeredState(env.display)
        placed == ensureNoOverlap(S.WINDOWS, centered)
        fresh(st, n) == [state |-> st, hasDefaultState |-> TRUE, from |-> "default", index |-> 0, shifts |-> n]
        kept(st, from, i) == [state |-> st, hasDefaultState |-> FALSE, from |-> from, index |-> i, shifts |-> 0]
    IN  IF restore /\ configuration.extensionDevelopmentPath # "" /\ host # <<>>
        THEN kept(host[1].uiState, "host", 0)
        ELSE IF restore /\ configuration.workspace.id # 0 /\ forWorkspace # {}
        THEN kept(opened[Min(forWorkspace)].uiState, "opened", Min(forWorkspace))
        ELSE IF restore /\ configuration.folderUri # NoUri /\ forFolder # {}
        THEN kept(opened[Min(forFolder)].uiState, "opened", Min(forFolder))
        ELSE IF restore /\ configuration.folderUri = NoUri /\ configuration.backupPath # NoBackup /\ forEmpty # {}
        THEN kept(opened[Min(forEmpty)].uiState, "opened", Min(forEmpty))
        ELSE IF restore /\ lastActive = 0 /\ lastActiveState # <<>>
        THEN kept(lastActiveState[1].uiState,
                  IF S.lastClosedWindowState # <<>> THEN "lastClosed" ELSE "lastActive", 0)
        ELSE IF env.newWindowDimensions = "maximized"
        THEN fresh([centered EXCEPT !.mode = "maximized"], 0)
        ELSE IF env.newWindowDimensions = "fullscreen"
        THEN fresh([centered EXCEPT !.mode = "fullscreen"], 0)
        ELSE IF env.newWindowDimensions = "inherit" /\ lastActive # 0
        THEN LET lastActiveUi == serializeWindowState(WindowById(S.WINDOWS, lastActive))
             IN  IF lastActiveUi.mode = "fullscreen"
                 THEN fresh([centered EXCEPT !.mode = "fullscreen"], 0)
                 ELSE fresh(lastActiveUi, 0)
        ELSE fresh(placed.state, placed.shifts)

\* state.mode = WindowMode.Normal, written to the object getNewWindowState returned
downgradeStoredMode(S, new) ==
    IF new.from = "host"
    THEN [S EXCEPT !.windowsState.lastPluginDevelopmentHostWindow[1].uiState.mode = "normal"]
    ELSE IF new.from = "opened"
    THEN [S EXCEPT !.windowsState.openedWindows[new.index].uiState.mode = "normal"]
    ELSE IF new.from = "lastClosed"
    THEN [S EXCEPT !.lastClosedWindowState[1].uiState.mode = "normal"]
    ELSE IF new.from = "lastActive"
    THEN [S EXCEPT !.windowsState.lastActiveWindow[1].uiState.mode = "normal"]
    ELSE S

----------------------------------------------------------------------------
(* openInBrowserWindow and doOpenInBrowserWindow *)

NoOptions ==
    [ cli |-> [extensionDevelopmentPath |-> "", extensionTestsPath |-> FALSE, remote |-> ""],
      workspace |-> NoWorkspace,
      folderUri |-> NoUri,
      remoteAuthority |-> "",
      initialStartup |-> FALSE,
      fileInputs |-> NoFileInputs,
      forceNewWindow |-> FALSE,
      forceNewTabbedWindow |-> FALSE,
      windowToUse |-> 0,
      emptyWindowBackupFolder |-> 0 ]

\* window.load(configuration): the window shows what the configuration names
\* and is not ready until its workbench reports ready
loadWindow(win, configuration) ==
    [win EXCEPT !.openedWorkspace = configuration.workspace,
                !.openedFolderUri = configuration.folderUri,
                !.backupPath = configuration.backupPath,
                !.remoteAuthority = configuration.remoteAuthority,
                !.extensionDevelopmentPath = configuration.extensionDevelopmentPath,
                !.isExtensionTestHost = configuration.extensionTestsPath,
                !.isReady = FALSE]

\* doOpenInBrowserWindow that registers every window as an empty window
doOpenInBrowserWindowEmptyBackup(S, id, configuration, backupFolder) ==
    LET backupPath ==
            IF configuration.extensionDevelopmentPath # "" THEN configuration.backupPath
            ELSE registerEmptyWindowBackupSync(S, backupFolder)
        loaded == [configuration EXCEPT !.backupPath = backupPath]
        i == IndexOfId(S.WINDOWS, id)
        S1 == [S EXCEPT !.WINDOWS[i] = loadWindow(@, loaded),
                        !.loadLog = Append(@, [id |-> id, configuration |-> loaded])]
    IN  fireOnWindowLoad(S1, id)

doOpenInBrowserWindow(S, id, configuration, backupFolder) ==
    LET backupPath ==
            IF configuration.extensionDevelopmentPath # "" THEN configuration.backupPath
            ELSE IF configuration.workspace.id # 0 THEN registerWorkspaceBackupSync(configuration.workspace)
            ELSE IF configuration.folderUri # NoUri THEN registerFolderBackupSync(configuration.folderUri)
            ELSE registerEmptyWindowBackupSync(S, backupFolder)
        loaded == [configuration EXCEPT !.backupPath = backupPath]
        i == IndexOfId(S.WINDOWS, id)
        S1 == [S EXCEPT !.WINDOWS[i] = loadWindow(@, loaded),
                        !.loadLog = Append(@, [id |-> id, configuration |-> loaded])]
    IN  fireOnWindowLoad(S1, id)

\* what openInBrowserWindow returns: the window it used
returning(S, id) == [S EXCEPT !.ret = id]

\* "Existing window": S1 is the state after window.focus()
openInExistingWindow(S1, options, configuration0, reuse) ==
    LET win == WindowById(S1.WINDOWS, reuse)
        configuration ==
            IF configuration0.extensionDevelopmentPath = "" /\ win.extensionDevelopmentPath # ""
            THEN [configuration0 EXCEPT !.extensionDevelopmentPath = win.extensionDevelopmentPath]
            ELSE configuration0
    IN  IF win.isReady
        THEN returning([S1 EXCEPT !.pendingLoads = Append(@, [id |-> reuse, configuration |-> configuration,
                                                              backupFolder |-> options.emptyWindowBackupFolder])],
                       reuse)
        ELSE returning(doOpenInBrowserWindow(S1, reuse, configuration, options.emptyWindowBackupFolder), reuse)

\* "New window", once its state is known: the window is created, added to
\* WINDOWS, the count change is announced and the window loads
openInCreatedWindow(S1, options, configuration0, new, state) ==
    LET id == FreshWindowId(S1)
        window == NewWindow(id, state, configuration0.extensionDevelopmentPath, configuration0.extensionTestsPath)
        placed == [id |-> id, hasDefaultState |-> new.hasDefaultState, from |-> new.from,
                   shifts |-> new.shifts, state |-> state, requested |-> new.state.mode,
                   lastActiveMode |-> IF lastActiveOf(S1.WINDOWS) = 0 THEN ""
                                      ELSE serializeWindowState(WindowById(S1.WINDOWS, lastActiveOf(S1.WINDOWS))).mode,
                   live |-> {getBounds(S1.WINDOWS[i]) : i \in 1..Len(S1.WINDOWS)}]
    IN  returning(doOpenInBrowserWindow(
                      onWindowsCountChanged([S1 EXCEPT !.WINDOWS = Append(@, window),
                                                       !.created = Append(@, id),
                                                       !.placeLog = Append(@, placed),
                                                       !.fired = Append(@, [oldCount |-> Len(S1.WINDOWS),
                                                                            newCount |-> Len(S1.WINDOWS) + 1])],
                                            Len(S1.WINDOWS), Len(S1.WINDOWS) + 1),
                      id, configuration0, options.emptyWindowBackupFolder),
                  id)

\* instantiationService.createInstance(CodeWindow, ...) throws when the host
\* cannot make the window: env.createThrows is the creation of the call that
\* fails (0 is none)
createInstanceThrows(S, env) == env.createThrows = Len(S.created) + 1

\* "New window" with the window pushed to WINDOWS before it is created
openInNewWindowPushFirst(S, options, configuration0, new, env) ==
    IF createInstanceThrows(S, env)
    THEN [S EXCEPT !.WINDOWS = Append(@, NewWindow(FreshWindowId(S), new.state, "", FALSE)),
                   !.thrown = TRUE, !.ret = 0]
    ELSE openInCreatedWindow(S, options, configuration0, new, new.state)

\* "New window": new is what getNewWindowState returned; when the creation
\* throws, nothing after it runs
openInNewWindow(S, options, configuration0, new, env) ==
    LET allowFullscreen == IF new.hasDefaultState
                           THEN env.newWindowDimensions \in {"fullscreen", "inherit"}
                           ELSE env.wasRestarted \/ env.restoreFullscreen
        downgrade == new.state.mode = "fullscreen" /\ ~allowFullscreen
        S1 == IF downgrade THEN downgradeStoredMode(S, new) ELSE S
    IN  IF createInstanceThrows(S, env)
        THEN [S1 EXCEPT !.thrown = TRUE, !.ret = 0]
        ELSE openInCreatedWindow(S1, options, configuration0, new,
                                 IF downgrade THEN [new.state EXCEPT !.mode = "normal"] ELSE new.state)

openInBrowserWindow(S, options, env) ==
    LET configuration0 ==
            [ workspace |-> options.workspace,
              folderUri |-> options.folderUri,
              remoteAuthority |-> options.remoteAuthority,
              isInitialStartup |-> options.initialStartup,
              filesToOpenOrCreate |-> options.fileInputs.filesToOpenOrCreate,
              filesToDiff |-> options.fileInputs.filesToDiff,
              filesToWait |-> options.fileInputs.filesToWait,
              backupPath |-> IF options.emptyWindowBackupFolder # 0
                             THEN EmptyBackupPath(options.emptyWindowBackupFolder)
                             ELSE NoBackup,
              extensionDevelopmentPath |-> options.cli.extensionDevelopmentPath,
              extensionTestsPath |-> options.cli.extensionTestsPath ]
        reuse == IF ~options.forceNewWindow /\ ~options.forceNewTabbedWindow
                 THEN IF options.windowToUse # 0 THEN options.windowToUse ELSE lastActiveOf(S.WINDOWS)
                 ELSE 0
    IN  IF S.thrown THEN S
        ELSE IF reuse # 0
        THEN openInExistingWindow(focusWindow(S, reuse), options, configuration0, reuse)
        ELSE openInNewWindow(S, options, configuration0, getNewWindowState(S, configuration0, env), env)

----------------------------------------------------------------------------
(* Path resolution: parsePath, parseUri and the extraction of the targets *)

NoPath ==
    [ workspace |-> NoWorkspace,
      folderUri |-> NoUri,
      fileUri |-> NoUri,
      backupPath |-> NoBackup,
      remoteAuthority |-> "",
      label |-> "",
      exists |-> "" ]

\* normalize(path) of vs/base/common/path, and normalizePath(uri) with the
\* trailing separator removed
normalize(p) == IF p \in {"/a/.", "/a/"} THEN "/a" ELSE p

\* hasWorkspaceFileExtension(path)
hasWorkspaceFileExtension(p) == p = "/w.code-workspace"

\* What is on disk: fs.statSync(candidate)
statSync(p) ==
    IF LowerCase(p) \in {"/a", "/b", "/c"} THEN "directory"
    ELSE IF p \in {"/f.txt", "/g.txt", "/a/h.txt", "/w.code-workspace"} \cup Range(UntitledConfigPaths) THEN "file"
    ELSE "ENOENT"

\* getWorkspaceIdentifier(configPath): the id is made of the config path
getWorkspaceIdentifier(uri) ==
    [ id |-> IF uri.path \in Range(UntitledConfigPaths)
             THEN 10 + Min({i \in 1..Len(UntitledConfigPaths) : UntitledConfigPaths[i] = uri.path})
             ELSE IF uri.scheme = "file" THEN 1 ELSE IF uri.authority = "r1" THEN 2 ELSE 3,
      configPath |-> uri,
      folders |-> <<>> ]

\* workspacesMainService.resolveLocalWorkspaceSync(uri): a workspace file that parses
resolveLocalWorkspaceSync(uri) ==
    IF (hasWorkspaceFileExtension(uri.path) \/ uri.path \in Range(UntitledConfigPaths)) /\ uri.scheme = "file"
    THEN <<[workspace |-> getWorkspaceIdentifier(uri), remoteAuthority |-> ""]>>
    ELSE <<>>

\* parsePath without the remote branch: the path is always looked up on disk
parsePathOnDisk(anyPath, options, forceOpenWorkspaceAsFile) ==
    IF anyPath = "" THEN <<>>
    ELSE LET candidate == normalize(anyPath)
             candidateStat == statSync(candidate)
             workspace == resolveLocalWorkspaceSync(FileUri(candidate))
         IN  IF candidateStat = "file"
             THEN IF ~forceOpenWorkspaceAsFile /\ workspace # <<>>
                  THEN <<[NoPath EXCEPT !.workspace = workspace[1].workspace,
                                        !.remoteAuthority = workspace[1].remoteAuthority,
                                        !.exists = "true"]>>
                  ELSE <<[NoPath EXCEPT !.fileUri = FileUri(candidate), !.exists = "true"]>>
             ELSE IF candidateStat = "directory"
             THEN <<[NoPath EXCEPT !.folderUri = FileUri(candidate), !.exists = "true"]>>
             ELSE IF options.ignoreFileNotFound
             THEN <<[NoPath EXCEPT !.fileUri = FileUri(candidate), !.exists = "false"]>>
             ELSE <<>>

\* parsePath that looks every path up on disk and never assumes a file that
\* does not exist yet
parsePathNoCreate(anyPath, options, forceOpenWorkspaceAsFile) ==
    IF options.remoteAuthority = "" /\ statSync(normalize(anyPath)) = "ENOENT"
    THEN <<>>
    ELSE parsePathOnDisk(anyPath, options, forceOpenWorkspaceAsFile)

parsePath(anyPath, options, forceOpenWorkspaceAsFile) ==
    IF anyPath = "" THEN <<>>
    ELSE IF options.remoteAuthority # ""
    THEN LET uri == RemoteUri(options.remoteAuthority, anyPath)
         IN  IF hasWorkspaceFileExtension(anyPath)
             THEN IF forceOpenWorkspaceAsFile
                  THEN <<[NoPath EXCEPT !.fileUri = uri, !.remoteAuthority = options.remoteAuthority]>>
                  ELSE <<[NoPath EXCEPT !.workspace = getWorkspaceIdentifier(uri),
                                        !.remoteAuthority = options.remoteAuthority]>>
             ELSE <<[NoPath EXCEPT !.folderUri = uri, !.remoteAuthority = options.remoteAuthority]>>
    ELSE LET candidate == normalize(anyPath)
             candidateStat == statSync(candidate)
             workspace == resolveLocalWorkspaceSync(FileUri(candidate))
         IN  IF candidateStat = "file"
             THEN IF ~forceOpenWorkspaceAsFile /\ workspace # <<>>
                  THEN <<[NoPath EXCEPT !.workspace = workspace[1].workspace,
                                        !.remoteAuthority = workspace[1].remoteAuthority,
                                        !.exists = "true"]>>
                  ELSE <<[NoPath EXCEPT !.fileUri = FileUri(candidate), !.exists = "true"]>>
             ELSE IF candidateStat = "directory"
             THEN <<[NoPath EXCEPT !.folderUri = FileUri(candidate), !.exists = "true"]>>
             ELSE IF options.ignoreFileNotFound
             THEN <<[NoPath EXCEPT !.fileUri = FileUri(candidate), !.exists = "false"]>>
             ELSE <<>>

NoParseOptions == [ignoreFileNotFound |-> FALSE, gotoLineMode |-> FALSE, remoteAuthority |-> ""]

\* toOpen is [kind |-> "folderUri" | "workspaceUri" | "fileUri", uri |-> ..., label |-> ...]
parseUri(toOpen, options) ==
    IF toOpen.uri.scheme = "file"
    THEN parsePath(toOpen.uri.path, options, toOpen.kind = "fileUri")
    ELSE LET remoteAuthority == IF options.remoteAuthority # "" THEN options.remoteAuthority
                                ELSE getRemoteAuthority(toOpen.uri)
             uri == [toOpen.uri EXCEPT !.path = normalize(@)]
         IN  IF toOpen.kind = "fileUri"
             THEN <<[NoPath EXCEPT !.fileUri = uri, !.remoteAuthority = remoteAuthority]>>
             ELSE IF toOpen.kind = "workspaceUri"
             THEN <<[NoPath EXCEPT !.workspace = getWorkspaceIdentifier(uri), !.remoteAuthority = remoteAuthority]>>
             ELSE <<[NoPath EXCEPT !.folderUri = uri, !.remoteAuthority = remoteAuthority]>>

Openable(kind, uri) == [kind |-> kind, uri |-> uri, label |-> ""]

\* doExtractPathsFromAPI giving up at the first URI that does not resolve
RECURSIVE doExtractPathsFromAPIAbort(_, _)
doExtractPathsFromAPIAbort(urisToOpen, parseOptions) ==
    IF urisToOpen = <<>> THEN <<>>
    ELSE LET path == parseUri(Head(urisToOpen), parseOptions)
         IN  IF path = <<>> THEN <<>>
             ELSE <<[path[1] EXCEPT !.label = Head(urisToOpen).label]>>
                      \o doExtractPathsFromAPIAbort(Tail(urisToOpen), parseOptions)

RECURSIVE doExtractPathsFromAPIFrom(_, _)
doExtractPathsFromAPIFrom(urisToOpen, parseOptions) ==
    IF urisToOpen = <<>> THEN <<>>
    ELSE LET path == parseUri(Head(urisToOpen), parseOptions)
         IN  (IF path # <<>> THEN <<[path[1] EXCEPT !.label = Head(urisToOpen).label]>> ELSE <<>>)
                 \o doExtractPathsFromAPIFrom(Tail(urisToOpen), parseOptions)

doExtractPathsFromAPI(openConfig) ==
    doExtractPathsFromAPIFrom(openConfig.urisToOpen,
                              [NoParseOptions EXCEPT !.gotoLineMode = openConfig.gotoLineMode])

RECURSIVE parseEach(_, _, _)
parseEach(P(_, _), args, parseOptions) ==
    IF args = <<>> THEN <<>>
    ELSE P(Head(args), parseOptions) \o parseEach(P, Tail(args), parseOptions)

doExtractPathsFromCLI(cli) ==
    LET parseOptions == [ignoreFileNotFound |-> TRUE, gotoLineMode |-> cli.goto, remoteAuthority |-> cli.remote]
        folderUri(f, o) == parseUri(Openable("folderUri", f), o)
        fileUri(f, o) == parseUri(Openable(IF hasWorkspaceFileExtension(f.path) THEN "workspaceUri" ELSE "fileUri", f), o)
        path(a, o) == parsePath(a, o, FALSE)
        pathsToOpen == parseEach(folderUri, cli.folderUris, parseOptions)
                           \o parseEach(fileUri, cli.fileUris, parseOptions)
                           \o parseEach(path, cli.args, parseOptions)
    IN  IF pathsToOpen # <<>> THEN pathsToOpen ELSE <<NoPath>>

getRestoreWindowsSetting(env) ==
    IF env.wasRestarted THEN "all"
    ELSE IF env.restoreWindows \in {"all", "folders", "one", "none"} THEN env.restoreWindows
    ELSE "one"

\* one entry of the loop of doGetWindowsFromLastSession
restoredPath(openedWindow, restoreWindows) ==
    IF openedWindow.workspace.id # 0
    THEN LET pathToOpen == parseUri(Openable("workspaceUri", openedWindow.workspace.configPath),
                                    [NoParseOptions EXCEPT !.remoteAuthority = openedWindow.remoteAuthority])
         IN  IF pathToOpen # <<>> /\ pathToOpen[1].workspace.id # 0
             THEN <<[pathToOpen[1] EXCEPT !.workspace.folders = openedWindow.workspace.folders]>>
             ELSE <<>>
    ELSE IF openedWindow.folderUri # NoUri
    THEN LET pathToOpen == parseUri(Openable("folderUri", openedWindow.folderUri),
                                    [NoParseOptions EXCEPT !.remoteAuthority = openedWindow.remoteAuthority])
         IN  IF pathToOpen # <<>> /\ pathToOpen[1].folderUri # NoUri THEN pathToOpen ELSE <<>>
    ELSE IF restoreWindows # "folders" /\ openedWindow.backupPath # NoBackup /\ openedWindow.remoteAuthority = ""
    THEN <<[NoPath EXCEPT !.backupPath = openedWindow.backupPath, !.remoteAuthority = openedWindow.remoteAuthority]>>
    ELSE <<>>

\* nothing is restored: an empty window, as with the setting 'none'
doGetWindowsFromLastSessionNone(state, env) == <<NoPath>>

\* doGetWindowsFromLastSession that reads openedWindows under every setting
doGetWindowsFromLastSessionAllOpened(state, env) ==
    LET restoreWindows == getRestoreWindowsSetting(env)
        openedWindows == state.openedWindows \o state.lastActiveWindow
        each(o, r) == restoredPath(o, r)
        windowsToOpen == parseEach(each, openedWindows, restoreWindows)
    IN  IF restoreWindows # "none" /\ windowsToOpen # <<>> THEN windowsToOpen ELSE <<NoPath>>

doGetWindowsFromLastSession(state, env) ==
    LET restoreWindows == getRestoreWindowsSetting(env)
        openedWindows == (IF restoreWindows # "one" THEN state.openedWindows ELSE <<>>) \o state.lastActiveWindow
        each(o, r) == restoredPath(o, r)
        windowsToOpen == parseEach(each, openedWindows, restoreWindows)
    IN  IF restoreWindows # "none" /\ windowsToOpen # <<>> THEN windowsToOpen ELSE <<NoPath>>

----------------------------------------------------------------------------
(* getPathsToOpen: the targets of one open() call *)

WorkspaceIdsIn(S) ==
    {S.WINDOWS[i].openedWorkspace.id : i \in 1..Len(S.WINDOWS)}
        \cup {S.pendingLoads[i].configuration.workspace.id : i \in 1..Len(S.pendingLoads)}
        \cup {o.workspace.id : o \in SnapshotsIn(S)}
        \cup S.reservedWorkspaces

\* does an untitled workspace id remain for createUntitledWorkspaceSync?
CanCreateUntitled(S) == UntitledIds \ WorkspaceIdsIn(S) # {}

\* workspacesMainService.createUntitledWorkspaceSync(folders): a workspace with a new id
createUntitledWorkspaceSync(S, folders) ==
    UntitledWorkspace(IF CanCreateUntitled(S) THEN Min(UntitledIds \ WorkspaceIdsIn(S)) ELSE Min(UntitledIds), folders)

folderUriOf(path) == path.folderUri

\* the conversion of several folders into one workspace, at the end of getPathsToOpen
foldersIntoWorkspaceNever(S, openConfig, windowsToOpen, isCommandLineOrAPICall) == windowsToOpen

\* the conversion that makes the workspace entry out of the first folder's entry
foldersIntoWorkspaceOfFirst(S, openConfig, windowsToOpen, isCommandLineOrAPICall) ==
    LET foldersToOpen == SelectSeq(windowsToOpen, LAMBDA path : path.folderUri # NoUri)
    IN  IF ~openConfig.addMode /\ isCommandLineOrAPICall /\ Len(foldersToOpen) > 1
           /\ \A i \in 1..Len(foldersToOpen) : foldersToOpen[i].remoteAuthority = foldersToOpen[1].remoteAuthority
        THEN LET workspace == createUntitledWorkspaceSync(S, SeqMap(folderUriOf, foldersToOpen))
             IN  Append(SelectSeq(windowsToOpen, LAMBDA path : path.folderUri = NoUri),
                        [foldersToOpen[1] EXCEPT !.workspace = workspace])
        ELSE windowsToOpen

foldersIntoWorkspace(S, openConfig, windowsToOpen, isCommandLineOrAPICall) ==
    LET foldersToOpen == SelectSeq(windowsToOpen, LAMBDA path : path.folderUri # NoUri)
    IN  IF ~openConfig.addMode /\ isCommandLineOrAPICall /\ Len(foldersToOpen) > 1
           /\ \A i \in 1..Len(foldersToOpen) : foldersToOpen[i].remoteAuthority = foldersToOpen[1].remoteAuthority
        THEN LET workspace == createUntitledWorkspaceSync(S, SeqMap(folderUriOf, foldersToOpen))
             IN  SelectSeq(Append(windowsToOpen, [NoPath EXCEPT !.workspace = workspace,
                                                               !.remoteAuthority = foldersToOpen[1].remoteAuthority]),
                           LAMBDA path : path.folderUri = NoUri)
        ELSE windowsToOpen

\* the targets getPathsToOpen extracts, before several folders become one workspace
extractPaths(S, openConfig, env) ==
    IF openConfig.urisToOpen # <<>>
    THEN [windowsToOpen |-> doExtractPathsFromAPI(openConfig), isCommandLineOrAPICall |-> TRUE]
    ELSE IF openConfig.forceEmpty
    THEN [windowsToOpen |-> <<NoPath>>, isCommandLineOrAPICall |-> FALSE]
    ELSE IF openConfig.cli.args # <<>> \/ openConfig.cli.folderUris # <<>> \/ openConfig.cli.fileUris # <<>>
    THEN [windowsToOpen |-> doExtractPathsFromCLI(openConfig.cli), isCommandLineOrAPICall |-> TRUE]
    ELSE [windowsToOpen |-> doGetWindowsFromLastSession(S.windowsState, env), isCommandLineOrAPICall |-> FALSE]

getPathsToOpen(S, openConfig, env) ==
    LET extracted == extractPaths(S, openConfig, env)
    IN  foldersIntoWorkspace(S, openConfig, extracted.windowsToOpen, extracted.isCommandLineOrAPICall)

\* validateOpenConfig: addMode only with an active window, not on startup
validateOpenConfig(S, config) ==
    IF config.addMode /\ (config.initialStartup \/ lastActiveOf(S.WINDOWS) = 0)
    THEN [config EXCEPT !.addMode = FALSE]
    ELSE config

\* shouldOpenNewWindow with the user settings asked before the flags
shouldOpenNewWindowBySettings(openConfig, env) ==
    [ openFolderInNewWindow |->
          IF env.openFoldersInNewWindow \in {"on", "off"} THEN env.openFoldersInNewWindow = "on"
          ELSE (openConfig.preferNewWindow \/ openConfig.forceNewWindow) /\ ~openConfig.forceReuseWindow,
      openFilesInNewWindow |->
          IF env.openFilesInNewWindow \in {"on", "off"} THEN env.openFilesInNewWindow = "on"
          ELSE openConfig.forceNewWindow /\ ~openConfig.forceReuseWindow ]

shouldOpenNewWindow(openConfig, env) ==
    LET forced == (openConfig.preferNewWindow \/ openConfig.forceNewWindow) /\ ~openConfig.forceReuseWindow
        openFolderInNewWindow ==
            IF ~openConfig.forceNewWindow /\ ~openConfig.forceReuseWindow /\ env.openFoldersInNewWindow \in {"on", "off"}
            THEN env.openFoldersInNewWindow = "on"
            ELSE forced
        byContext ==
            IF env.isMacintosh THEN openConfig.context = "DOCK"
            ELSE openConfig.context # "DIALOG" /\ openConfig.context # "MENU" /\ openConfig.userEnvTermProgram # "vscode"
        openFilesInNewWindow ==
            IF openConfig.forceNewWindow \/ openConfig.forceReuseWindow
            THEN openConfig.forceNewWindow /\ ~openConfig.forceReuseWindow
            ELSE IF openConfig.cli.extensionDevelopmentPath = "" /\ env.openFilesInNewWindow \in {"on", "off"}
            THEN env.openFilesInNewWindow = "on"
            ELSE byContext
    IN  [openFolderInNewWindow |-> openFolderInNewWindow, openFilesInNewWindow |-> openFilesInNewWindow]

----------------------------------------------------------------------------
(* doOpen.  D is the state of one doOpen call: the handler state S, the     *)
(* windows used so far, the file inputs not yet handed to a window and      *)
(* openFolderInNewWindow.                                                   *)

doOpenFilesInExistingWindow(S, id, fileInputs) ==
    LET S1 == focusWindow(S, id)
    IN  IF S.thrown THEN S
        ELSE
        [S1 EXCEPT !.sendLog = Append(@, [id |-> id, channel |-> "vscode:openFiles",
                                          fileInputs |-> fileInputs, foldersToAdd |-> <<>>]),
                   !.ret = id]

doAddFoldersToExistingWindow(S, id, foldersToAdd) ==
    LET S1 == focusWindow(S, id)
    IN  IF S.thrown THEN S
        ELSE
        [S1 EXCEPT !.sendLog = Append(@, [id |-> id, channel |-> "vscode:addFolders",
                                          fileInputs |-> NoFileInputs, foldersToAdd |-> foldersToAdd]),
                   !.ret = id]

\* getWindowById(windowId)
getWindowById(windows, windowId) == IF HasWindow(windows, windowId) THEN windowId ELSE 0

\* doOpenFolderOrWorkspace that does not pass forceNewWindow on
doOpenFolderOrWorkspaceReuse(S, openConfig, folderOrWorkspace, forceNewWindow, fileInputs, env) ==
    openInBrowserWindow(S,
        [NoOptions EXCEPT !.cli = openConfig.cli,
                          !.initialStartup = openConfig.initialStartup,
                          !.workspace = folderOrWorkspace.workspace,
                          !.folderUri = folderOrWorkspace.folderUri,
                          !.fileInputs = fileInputs,
                          !.remoteAuthority = folderOrWorkspace.remoteAuthority,
                          !.forceNewTabbedWindow = openConfig.forceNewTabbedWindow,
                          !.windowToUse = IF openConfig.contextWindowId # 0
                                          THEN getWindowById(S.WINDOWS, openConfig.contextWindowId)
                                          ELSE 0],
        env)

doOpenFolderOrWorkspace(S, openConfig, folderOrWorkspace, forceNewWindow, fileInputs, env) ==
    openInBrowserWindow(S,
        [NoOptions EXCEPT !.cli = openConfig.cli,
                          !.initialStartup = openConfig.initialStartup,
                          !.workspace = folderOrWorkspace.workspace,
                          !.folderUri = folderOrWorkspace.folderUri,
                          !.fileInputs = fileInputs,
                          !.remoteAuthority = folderOrWorkspace.remoteAuthority,
                          !.forceNewWindow = forceNewWindow,
                          !.forceNewTabbedWindow = openConfig.forceNewTabbedWindow,
                          !.windowToUse = IF ~forceNewWindow /\ openConfig.contextWindowId # 0
                                          THEN getWindowById(S.WINDOWS, openConfig.contextWindowId)
                                          ELSE 0],
        env)

\* the folder a file lies in
dirname(p) == IF p = "/a/h.txt" THEN "/a" ELSE "/"

isEqualOrParent(fileUri, folderUri) ==
    /\ folderUri # NoUri
    /\ fileUri.scheme = folderUri.scheme
    /\ fileUri.authority = folderUri.authority
    /\ LowerCase(dirname(fileUri.path)) = LowerCase(folderUri.path)

\* findBestWindowOrFolderForFile of vs/platform/windows/node/window.ts
findBestWindowOrFolderForFile(windows, newWindow, context, fileUri) ==
    LET onFilePath == SelectSeq(windows, LAMBDA w :
                          \/ isEqualOrParent(fileUri, w.openedFolderUri)
                          \/ \E i \in 1..Len(w.openedWorkspace.folders) :
                                 isEqualOrParent(fileUri, w.openedWorkspace.folders[i]))
    IN  IF newWindow THEN 0
        ELSE IF fileUri # NoUri /\ context \in {"DESKTOP", "CLI", "DOCK"} /\ onFilePath # <<>>
        THEN FirstId(onFilePath)
        ELSE lastActiveOf(windows)

\* the window is noted as used and the file inputs are kept for the next one
handledKeepFiles(D, S2, fileInputsForWindow) ==
    [D EXCEPT !.S = S2,
              !.usedWindows = Append(@, S2.ret)]

handled(D, S2, fileInputsForWindow) ==
    [D EXCEPT !.S = S2,
              !.usedWindows = Append(@, S2.ret),
              !.fileInputs = IF fileInputsForWindow.present THEN NoFileInputs ELSE @]

fileInputsFor(D, remoteAuthority) ==
    IF D.fileInputs.present /\ D.fileInputs.remoteAuthority = remoteAuthority THEN D.fileInputs ELSE NoFileInputs

\* Handle files to open when no folder, workspace or empty window is to be opened
doOpenFiles(D, openConfig, openFilesInNewWindow, env) ==
    LET fileInputs == D.fileInputs
        fileToCheck == IF fileInputs.filesToOpenOrCreate # <<>> THEN fileInputs.filesToOpenOrCreate[1].fileUri
                       ELSE IF fileInputs.filesToDiff # <<>> THEN fileInputs.filesToDiff[1].fileUri
                       ELSE NoUri
        windows == SelectSeq(D.S.WINDOWS, LAMBDA w : w.remoteAuthority = fileInputs.remoteAuthority)
        best == findBestWindowOrFolderForFile(windows, openFilesInNewWindow, openConfig.context, fileToCheck)
        bestWindow == WindowById(D.S.WINDOWS, best)
    IN  IF best # 0
        THEN IF bestWindow.openedWorkspace.id # 0
             THEN [D EXCEPT !.workspacesToOpen = Append(@, [NoPath EXCEPT !.workspace = bestWindow.openedWorkspace,
                                                                          !.remoteAuthority = bestWindow.remoteAuthority])]
             ELSE IF bestWindow.openedFolderUri # NoUri
             THEN [D EXCEPT !.foldersToOpen = Append(@, [NoPath EXCEPT !.folderUri = bestWindow.openedFolderUri,
                                                                       !.remoteAuthority = bestWindow.remoteAuthority])]
             ELSE handled(D, doOpenFilesInExistingWindow(D.S, best, fileInputs), fileInputs)
        ELSE handled(D,
                     openInBrowserWindow(D.S,
                         [NoOptions EXCEPT !.cli = openConfig.cli,
                                           !.initialStartup = openConfig.initialStartup,
                                           !.fileInputs = fileInputs,
                                           !.forceNewWindow = TRUE,
                                           !.remoteAuthority = fileInputs.remoteAuthority,
                                           !.forceNewTabbedWindow = openConfig.forceNewTabbedWindow],
                         env),
                     fileInputs)

\* the windows found by findWindowOnWorkspace for the targets, without the misses
RECURSIVE windowsOn(_, _, _)
windowsOn(Find(_, _), windows, targets) ==
    IF targets = <<>> THEN <<>>
    ELSE (IF Find(windows, Head(targets)) # 0 THEN <<Find(windows, Head(targets))>> ELSE <<>>)
             \o windowsOn(Find, windows, Tail(targets))

\* "Open remaining ones": Shows(win, target) is the test that skips a target
RECURSIVE openRemaining(_, _, _, _, _, _)
openRemaining(D, openConfig, targets, found, Shows(_, _), env) ==
    IF targets = <<>> THEN D
    ELSE IF \E i \in 1..Len(found) : Shows(WindowById(D.S.WINDOWS, found[i]), Head(targets))
    THEN openRemaining(D, openConfig, Tail(targets), found, Shows, env)
    ELSE LET fileInputsForWindow == fileInputsFor(D, Head(targets).remoteAuthority)
             S2 == doOpenFolderOrWorkspace(D.S, openConfig, Head(targets), D.openFolderInNewWindow,
                                           fileInputsForWindow, env)
             D2 == [handled(D, S2, fileInputsForWindow) EXCEPT !.openFolderInNewWindow = TRUE]
         IN  openRemaining(D2, openConfig, Tail(targets), found, Shows, env)

\* "Check for existing instances", then "Open remaining ones"
openAll(D, openConfig, targets, found, Shows(_, _), env) ==
    IF targets = <<>> THEN D
    ELSE IF found # <<>>
    THEN LET win == WindowById(D.S.WINDOWS, found[1])
             fileInputsForWindow == fileInputsFor(D, win.remoteAuthority)
             S2 == doOpenFilesInExistingWindow(D.S, found[1], fileInputsForWindow)
             D2 == [handled(D, S2, fileInputsForWindow) EXCEPT !.openFolderInNewWindow = TRUE]
         IN  openRemaining(D2, openConfig, targets, found, Shows, env)
    ELSE openRemaining(D, openConfig, targets, found, Shows, env)

workspaceIdOf(path) == path.workspace.id

\* Handle workspaces to open (instructed and to restore)
doOpenWorkspaces(D, openConfig, env) ==
    LET allWorkspacesToOpen == distinct(workspaceIdOf, D.workspacesToOpen)
        find(windows, workspaceToOpen) == findWindowOnWorkspace(windows, workspaceToOpen.workspace)
        shows(win, workspaceToOpen) == win.openedWorkspace.id = workspaceToOpen.workspace.id
    IN  openAll(D, openConfig, allWorkspacesToOpen, windowsOn(find, D.S.WINDOWS, allWorkspacesToOpen), shows, env)

folderKeyOf(path) == getComparisonKey(path.folderUri)

\* the folders are opened without looking for windows that show them
doOpenFoldersNoReuse(D, openConfig, env) ==
    LET allFoldersToOpen == distinct(folderKeyOf, D.foldersToOpen)
        shows(win, folderToOpen) == isEqual(win.openedFolderUri, folderToOpen.folderUri)
    IN  openAll(D, openConfig, allFoldersToOpen, <<>>, shows, env)

\* Handle folders to open (instructed and to restore)
doOpenFolders(D, openConfig, env) ==
    LET allFoldersToOpen == distinct(folderKeyOf, D.foldersToOpen)
        find(windows, folderToOpen) == findWindowOnFolderUri(windows, folderToOpen.folderUri)
        shows(win, folderToOpen) == isEqual(win.openedFolderUri, folderToOpen.folderUri)
    IN  openAll(D, openConfig, allFoldersToOpen, windowsOn(find, D.S.WINDOWS, allFoldersToOpen), shows, env)

backupFolderOf(info) == info.backupFolder

\* Handle empty to restore
RECURSIVE doOpenEmptyToRestore(_, _, _, _)
doOpenEmptyToRestore(D, openConfig, allEmptyToRestore, env) ==
    IF allEmptyToRestore = <<>> THEN D
    ELSE LET emptyWindowBackupInfo == Head(allEmptyToRestore)
             fileInputsForWindow == fileInputsFor(D, emptyWindowBackupInfo.remoteAuthority)
             S2 == openInBrowserWindow(D.S,
                       [NoOptions EXCEPT !.cli = openConfig.cli,
                                         !.initialStartup = openConfig.initialStartup,
                                         !.fileInputs = fileInputsForWindow,
                                         !.remoteAuthority = emptyWindowBackupInfo.remoteAuthority,
                                         !.forceNewWindow = TRUE,
                                         !.forceNewTabbedWindow = openConfig.forceNewTabbedWindow,
                                         !.emptyWindowBackupFolder = emptyWindowBackupInfo.backupFolder],
                       env)
             D2 == [handled(D, S2, fileInputsForWindow) EXCEPT !.openFolderInNewWindow = TRUE]
         IN  doOpenEmptyToRestore(D2, openConfig, Tail(allEmptyToRestore), env)

\* Handle empty to open (only if no other window opened)
RECURSIVE doOpenEmpty(_, _, _, _, _)
doOpenEmpty(D, openConfig, emptyToOpen, remoteAuthority, env) ==
    IF emptyToOpen = 0 THEN D
    ELSE LET S2 == openInBrowserWindow(D.S,
                       [NoOptions EXCEPT !.cli = openConfig.cli,
                                         !.initialStartup = openConfig.initialStartup,
                                         !.remoteAuthority = remoteAuthority,
                                         !.forceNewWindow = D.openFolderInNewWindow,
                                         !.forceNewTabbedWindow = openConfig.forceNewTabbedWindow,
                                         !.fileInputs = D.fileInputs],
                       env)
             D2 == [handled(D, S2, [NoFileInputs EXCEPT !.present = TRUE]) EXCEPT !.openFolderInNewWindow = TRUE]
         IN  doOpenEmpty(D2, openConfig, emptyToOpen - 1, remoteAuthority, env)

\* Handle folders to add by looking for the last active workspace (not on initial startup)
doOpenFoldersToAdd(D, openConfig, foldersToAdd) ==
    LET authority == foldersToAdd[1].remoteAuthority
        lastActiveWindow == lastActiveOf(SelectSeq(D.S.WINDOWS, LAMBDA w : w.remoteAuthority = authority))
    IN  IF lastActiveWindow # 0
        THEN handled(D, doAddFoldersToExistingWindow(D.S, lastActiveWindow, SeqMap(folderUriOf, foldersToAdd)),
                     NoFileInputs)
        ELSE D

\* "Handle folders to add", not on initial startup
doOpenFoldersToAddStep(D0, openConfig, foldersToAdd) ==
    IF ~openConfig.initialStartup /\ foldersToAdd # <<>>
    THEN doOpenFoldersToAdd(D0, openConfig, foldersToAdd)
    ELSE D0

\* "Handle files to open/diff or to create when we dont open a folder and we do not restore any folder/untitled from hot-exit"
doOpenFilesStep(D1, openConfig, potentialWindowsCount, openFilesInNewWindow, env) ==
    IF potentialWindowsCount = 0 /\ D1.fileInputs.present
    THEN doOpenFiles(D1, openConfig, openFilesInNewWindow, env)
    ELSE D1

\* "Handle empty to open (only if no other window opened)"
doOpenEmptyStep(D5, openConfig, emptyToOpen, env) ==
    IF D5.usedWindows = <<>> \/ D5.fileInputs.present
    THEN doOpenEmpty(D5, openConfig,
                     IF D5.fileInputs.present /\ emptyToOpen = 0 THEN 1 ELSE emptyToOpen,
                     IF D5.fileInputs.present THEN D5.fileInputs.remoteAuthority ELSE openConfig.cli.remote,
                     env)
    ELSE D5

\* return arrays.distinct(usedWindows)
doOpenResult(D6) == [S |-> D6.S, usedWindows |-> distinct(Identity, D6.usedWindows)]

doOpen(S, openConfig, workspacesToOpen, foldersToOpen, emptyToRestore, emptyToOpen, fileInputs, foldersToAdd, env) ==
    LET new == shouldOpenNewWindow(openConfig, env)
        D0 == [ S |-> S, usedWindows |-> <<>>, fileInputs |-> fileInputs,
                openFolderInNewWindow |-> new.openFolderInNewWindow,
                workspacesToOpen |-> workspacesToOpen, foldersToOpen |-> foldersToOpen ]
        potentialWindowsCount == Len(foldersToOpen) + Len(workspacesToOpen) + Len(emptyToRestore)
    IN  doOpenResult(
          doOpenEmptyStep(
            doOpenEmptyToRestore(
              doOpenFolders(
                doOpenWorkspaces(
                  doOpenFilesStep(
                    doOpenFoldersToAddStep(D0, openConfig, foldersToAdd),
                    openConfig, potentialWindowsCount, new.openFilesInNewWindow, env),
                  openConfig, env),
                openConfig, env),
              openConfig, distinct(backupFolderOf, emptyToRestore), env),
            openConfig, emptyToOpen, env))

----------------------------------------------------------------------------
(* open() *)

NoBackups == [folders |-> <<>>, workspaces |-> <<>>, untitled |-> <<>>, empties |-> <<>>]

\* the loop of open() that sorts the paths to open
RECURSIVE classify(_, _, _)
classify(pathsToOpen, openConfig, C) ==
    IF pathsToOpen = <<>> THEN C
    ELSE LET path == Head(pathsToOpen)
             C2 == IF path.folderUri # NoUri
                   THEN IF openConfig.addMode
                        THEN [C EXCEPT !.foldersToAdd = Append(@, path)]
                        ELSE [C EXCEPT !.foldersToOpen = Append(@, path)]
                   ELSE IF path.workspace.id # 0
                   THEN [C EXCEPT !.workspacesToOpen = Append(@, path)]
                   ELSE IF path.fileUri # NoUri
                   THEN [C EXCEPT !.fileInputs =
                            [@ EXCEPT !.present = TRUE,
                                      !.remoteAuthority = IF C.fileInputs.present THEN @ ELSE path.remoteAuthority,
                                      !.filesToOpenOrCreate = Append(@, path)]]
                   ELSE IF path.backupPath # NoBackup
                   THEN [C EXCEPT !.emptyToRestore = Append(@, [backupFolder |-> basename(path.backupPath),
                                                                remoteAuthority |-> path.remoteAuthority])]
                   ELSE [C EXCEPT !.emptyToOpen = @ + 1]
         IN  classify(Tail(pathsToOpen), openConfig, C2)

\* the files to open are never taken as files to diff
diffAndWaitNoPair(fileInputs, openConfig) ==
    IF fileInputs.present /\ openConfig.waitMarkerFileURI
    THEN [fileInputs EXCEPT !.filesToWait = TRUE]
    ELSE fileInputs

\* When run with --diff, take the files to open as files to diff if there are
\* exactly two; when run with --wait, keep the paths to wait for
diffAndWait(fileInputs, openConfig) ==
    LET diffed == IF fileInputs.present /\ openConfig.diffMode /\ Len(fileInputs.filesToOpenOrCreate) = 2
                  THEN [fileInputs EXCEPT !.filesToDiff = fileInputs.filesToOpenOrCreate, !.filesToOpenOrCreate = <<>>]
                  ELSE fileInputs
    IN  IF diffed.present /\ openConfig.waitMarkerFileURI
        THEN [diffed EXCEPT !.filesToWait = TRUE]
        ELSE diffed

\* "Make sure to pass focus to the most relevant of the windows if we open multiple"
RECURSIVE lastNotRestored(_, _, _, _, _)
lastNotRestored(windows, usedWindows, workspacesToRestore, foldersToRestore, emptyToRestore) ==
    IF usedWindows = <<>> THEN 0
    ELSE LET usedWindow == WindowById(windows, usedWindows[Len(usedWindows)])
         IN  IF \/ /\ usedWindow.openedWorkspace.id # 0
                   /\ \E i \in 1..Len(workspacesToRestore) :
                          workspacesToRestore[i].workspace.id = usedWindow.openedWorkspace.id
                \/ /\ usedWindow.openedFolderUri # NoUri
                   /\ \E i \in 1..Len(foldersToRestore) : isEqual(foldersToRestore[i], usedWindow.openedFolderUri)
                \/ /\ usedWindow.backupPath # NoBackup
                   /\ \E i \in 1..Len(emptyToRestore) : emptyToRestore[i].backupFolder = basename(usedWindow.backupPath)
             THEN lastNotRestored(windows, SubSeq(usedWindows, 1, Len(usedWindows) - 1),
                                  workspacesToRestore, foldersToRestore, emptyToRestore)
             ELSE usedWindow.id

passFocus(S, openConfig, usedWindows, workspacesToRestore, foldersToRestore, emptyToRestore) ==
    LET focusLastActive == /\ S.windowsState.lastActiveWindow # <<>>
                           /\ ~openConfig.forceEmpty
                           /\ openConfig.cli.args # <<>>
                           /\ openConfig.cli.fileUris = <<>>
                           /\ openConfig.cli.folderUris = <<>>
                           /\ openConfig.urisToOpen = <<>>
        lastActiveWindow == SelectSeq(usedWindows, LAMBDA id :
                                WindowById(S.WINDOWS, id).backupPath = S.windowsState.lastActiveWindow[1].backupPath)
        notRestored == lastNotRestored(S.WINDOWS, usedWindows, workspacesToRestore, foldersToRestore, emptyToRestore)
    IN  IF S.thrown \/ Len(usedWindows) <= 1 THEN S
        ELSE IF focusLastActive /\ lastActiveWindow # <<>>
        THEN [focusWindow(S, lastActiveWindow[1]) EXCEPT !.focusPass = <<lastActiveWindow[1]>>]
        ELSE IF notRestored # 0
        THEN [focusWindow(S, notRestored) EXCEPT !.focusPass = <<notRestored>>]
        ELSE [focusWindow(S, usedWindows[Len(usedWindows)]) EXCEPT !.focusPass = <<usedWindows[Len(usedWindows)]>>]

\* "Remember in recent document list"
RECURSIVE recentsOf(_)
recentsOf(pathsToOpen) ==
    IF pathsToOpen = <<>> THEN <<>>
    ELSE (IF Head(pathsToOpen).workspace.id # 0 \/ Head(pathsToOpen).folderUri # NoUri
             \/ Head(pathsToOpen).fileUri # NoUri
          THEN <<[Head(pathsToOpen) EXCEPT !.backupPath = NoBackup, !.remoteAuthority = "", !.exists = ""]>>
          ELSE <<>>) \o recentsOf(Tail(pathsToOpen))

addRecentlyOpened(S, openConfig, usedWindows, pathsToOpen) ==
    IF /\ ~S.thrown
       /\ ~\E i \in 1..Len(usedWindows) : isExtensionDevelopmentHost(WindowById(S.WINDOWS, usedWindows[i]))
       /\ ~openConfig.diffMode
       /\ ~openConfig.noRecentEntry
    THEN [S EXCEPT !.recents = recentsOf(pathsToOpen)]
    ELSE S

\* "If we got started with --wait from the CLI, we need to signal to the outside when the window used for the edit operation is closed or loaded to a different folder"
waitStep(S2, openConfig, usedWindows) ==
    IF ~S2.thrown /\ openConfig.context = "CLI" /\ openConfig.waitMarkerFileURI /\ Len(usedWindows) = 1
    THEN waitForWindowCloseOrLoad(S2, usedWindows[1])
    ELSE S2

\* open() after doOpen: focus, recent entries and the wait marker
openDone(openConfig, pathsToOpen, fileInputs, workspacesToRestore, emptyToRestore, S, usedWindows) ==
    [ S |-> waitStep(addRecentlyOpened(passFocus(S, openConfig, usedWindows, workspacesToRestore, <<>>, emptyToRestore),
                                       openConfig, usedWindows, pathsToOpen),
                     openConfig, usedWindows),
      openConfig |-> openConfig,
      pathsToOpen |-> pathsToOpen,
      usedWindows |-> usedWindows,
      fileInputs |-> fileInputs ]

openUsed(openConfig, pathsToOpen, fileInputs, workspacesToRestore, emptyToRestore, done) ==
    openDone(openConfig, pathsToOpen, fileInputs, workspacesToRestore, emptyToRestore, done.S, done.usedWindows)

\* open() once the paths are sorted into C.  The folders to restore from
\* backups go to a variable that shadows foldersToRestore and from there to
\* foldersToAdd; the foldersToRestore the focus pass reads stays empty.
openSorted(S0, openConfig, pathsToOpen, C, env) ==
    LET fileInputs == diffAndWait(C.fileInputs, openConfig)
        restoring == openConfig.initialStartup /\ openConfig.cli.extensionDevelopmentPath = ""
                        /\ ~openConfig.cli.disableRestoreWindows
        workspacesToRestore == IF restoring THEN env.backups.workspaces \o env.backups.untitled ELSE <<>>
        foldersToAdd == IF restoring
                        THEN C.foldersToAdd \o SeqMap(LAMBDA f : [NoPath EXCEPT !.folderUri = f], env.backups.folders)
                        ELSE C.foldersToAdd
        workspacesToOpen == C.workspacesToOpen \o SeqMap(LAMBDA w : [NoPath EXCEPT !.workspace = w.workspace,
                                                                       !.remoteAuthority = w.remoteAuthority],
                                                         workspacesToRestore)
        emptyToRestore == IF restoring THEN C.emptyToRestore \o env.backups.empties ELSE <<>>
    IN  openUsed(openConfig, pathsToOpen, fileInputs, workspacesToRestore, emptyToRestore,
                 doOpen(S0, openConfig, workspacesToOpen, C.foldersToOpen, emptyToRestore, C.emptyToOpen,
                        fileInputs, foldersToAdd, env))

openPaths(S0, openConfig, pathsToOpen, env) ==
    openSorted(S0, openConfig, pathsToOpen,
               classify(pathsToOpen, openConfig,
                        [ foldersToAdd |-> <<>>, foldersToOpen |-> <<>>, workspacesToOpen |-> <<>>,
                          emptyToRestore |-> <<>>, emptyToOpen |-> 0, fileInputs |-> NoFileInputs ]),
               env)

openValidated(S0, openConfig, env) == openPaths(S0, openConfig, getPathsToOpen(S0, openConfig, env), env)

open(S0, openConfig0, env) == openValidated(S0, validateOpenConfig(S0, openConfig0), env)

----------------------------------------------------------------------------
(* Shutdown: onBeforeShutdown, onBeforeWindowClose, onWindowClosed and the  *)
(* stored form of the windows state                                         *)

\* uri.toString() and URI.parse()
uriToString(uri) == <<uri.scheme, uri.authority, uri.path>>
uriParse(str) == [scheme |-> str[1], authority |-> str[2], path |-> str[3]]

\* getWindowsStateStoreData(windowsState) of windowsStateStorage.ts
serializedWindowState(o) ==
    [ workspaceIdentifier |-> [id |-> o.workspace.id, configURIPath |-> uriToString(o.workspace.configPath),
                               folders |-> o.workspace.folders],
      folder |-> uriToString(o.folderUri),
      backupPath |-> o.backupPath,
      remoteAuthority |-> o.remoteAuthority,
      uiState |-> o.uiState ]

getWindowsStateStoreData(state) ==
    [ lastActiveWindow |-> SeqMap(serializedWindowState, state.lastActiveWindow),
      lastPluginDevelopmentHostWindow |-> SeqMap(serializedWindowState, state.lastPluginDevelopmentHostWindow),
      openedWindows |-> SeqMap(serializedWindowState, state.openedWindows) ]

\* restoreWindowsState(data) of windowsStateStorage.ts
restoredWindowState(d) ==
    [ workspace |-> [id |-> d.workspaceIdentifier.id, configPath |-> uriParse(d.workspaceIdentifier.configURIPath),
                     folders |-> d.workspaceIdentifier.folders],
      folderUri |-> uriParse(d.folder),
      backupPath |-> d.backupPath,
      remoteAuthority |-> d.remoteAuthority,
      uiState |-> d.uiState ]

restoreWindowsState(data) ==
    [ lastActiveWindow |-> SeqMap(restoredWindowState, data.lastActiveWindow),
      lastPluginDevelopmentHostWindow |-> SeqMap(restoredWindowState, data.lastPluginDevelopmentHostWindow),
      openedWindows |-> SeqMap(restoredWindowState, data.openedWindows) ]

\* a snapshot taken without looking for an active window
onBeforeShutdownNoActive(windows, state, lastClosed) ==
    [ lastActiveWindow |-> lastClosed,
      lastPluginDevelopmentHostWindow |-> state.lastPluginDevelopmentHostWindow,
      openedWindows |-> IF Len(windows) > 1 THEN SeqMap(toWindowState, windows) ELSE <<>> ]

\* onBeforeShutdown(): the windows state that is persisted
onBeforeShutdown(windows, state, lastClosed) ==
    LET lastActive == lastActiveOf(windows)
        notHost == SelectSeq(windows, LAMBDA w : ~isExtensionDevelopmentHost(w))
        activeWindow == IF lastActive = 0 \/ isExtensionDevelopmentHost(WindowById(windows, lastActive))
                        THEN FirstId(notHost)
                        ELSE lastActive
        extensionHostWindow == SelectSeq(windows, LAMBDA w : isExtensionDevelopmentHost(w) /\ ~w.isExtensionTestHost)
    IN  [ lastActiveWindow |->
              IF lastClosed # <<>> THEN lastClosed
              ELSE IF activeWindow # 0 THEN <<toWindowState(WindowById(windows, activeWindow))>>
              ELSE <<>>,
          lastPluginDevelopmentHostWindow |->
              IF extensionHostWindow # <<>> THEN <<toWindowState(extensionHostWindow[1])>>
              ELSE state.lastPluginDevelopmentHostWindow,
          openedWindows |->
              IF Len(windows) > 1 THEN SeqMap(toWindowState, notHost) ELSE <<>> ]

\* onBeforeWindowClose(win), on the handler state S
onBeforeWindowClose(S, quit, id) ==
    LET win == WindowById(S.WINDOWS, id)
        state == toWindowState(win)
        same(o) == \/ win.openedWorkspace.id # 0 /\ o.workspace.id # 0 /\ o.workspace.id = win.openedWorkspace.id
                   \/ win.openedFolderUri # NoUri /\ o.folderUri # NoUri /\ isEqual(o.folderUri, win.openedFolderUri)
        S1 == IF isExtensionDevelopmentHost(win) /\ ~win.isExtensionTestHost
              THEN [S EXCEPT !.windowsState.lastPluginDevelopmentHostWindow = <<state>>]
              ELSE IF ~isExtensionDevelopmentHost(win) /\ (win.openedWorkspace.id # 0 \/ win.openedFolderUri # NoUri)
              THEN [S EXCEPT !.windowsState.openedWindows =
                        SeqMap(LAMBDA o : IF same(o) THEN [o EXCEPT !.uiState = state.uiState] ELSE o, @)]
              ELSE S
    IN  IF quit THEN S
        ELSE IF Len(S.WINDOWS) = 1 THEN [S1 EXCEPT !.lastClosedWindowState = <<state>>]
        ELSE S1

\* onWindowClosed(win), on the handler state S
onWindowClosed(S, id) ==
    LET \* indexOf() gives -1 for a window that is not in the list, and
        \* splice(-1, 1) then removes the last element of the list
        index == IF HasWindow(S.WINDOWS, id) THEN IndexOfId(S.WINDOWS, id) ELSE Len(S.WINDOWS)
        S1 == [S EXCEPT !.WINDOWS = SubSeq(@, 1, index - 1) \o SubSeq(@, index + 1, Len(@))]
        S2 == onWindowsCountChanged(S1, Len(S1.WINDOWS) + 1, Len(S1.WINDOWS))
    IN  fireOnWindowClose(S2, id)

----------------------------------------------------------------------------
(* The state machine.  Every action runs one handler of the manager on the  *)
(* handler state made of the variables, and records in lastOpen what the    *)
(* handler was given and what it did.                                       *)

\* focus times are only compared: they are kept as ranks, 0 for never focused
NormalizeFocus(windows) ==
    LET times == {windows[i].lastFocusTime : i \in 1..Len(windows)} \ {0}
        rank(t) == Cardinality({u \in times : u <= t})
    IN  [i \in 1..Len(windows) |-> [windows[i] EXCEPT !.lastFocusTime = rank(@)]]

backupSlotsOf(backups) == {backups.empties[i].backupFolder : i \in 1..Len(backups.empties)}

backupWorkspacesOf(backups) ==
    {backups.workspaces[i].workspace.id : i \in 1..Len(backups.workspaces)}
        \cup {backups.untitled[i].workspace.id : i \in 1..Len(backups.untitled)}

\* the handler state a handler starts with
HandlerState(env) ==
    [ WINDOWS |-> WINDOWS,
      windowsState |-> windowsState,
      lastClosedWindowState |-> lastClosedWindowState,
      pendingLoads |-> pendingLoads,
      waitListeners |-> waitListeners,
      completed |-> completed,
      created |-> <<>>, focusLog |-> <<>>, loadLog |-> <<>>, sendLog |-> <<>>, placeLog |-> <<>>,
      focusPass |-> <<>>, recents |-> <<>>, ret |-> 0,
      thrown |-> FALSE, fired |-> <<>>,
      reservedSlots |-> backupSlotsOf(env.backups),
      reservedWorkspaces |-> backupWorkspacesOf(env.backups) ]

BaseCli ==
    [ args |-> <<>>, folderUris |-> <<>>, fileUris |-> <<>>, remote |-> "", goto |-> FALSE,
      extensionDevelopmentPath |-> "", extensionTestsPath |-> FALSE, disableRestoreWindows |-> FALSE ]

BaseConfig ==
    [ context |-> "CLI", cli |-> BaseCli, urisToOpen |-> <<>>,
      forceEmpty |-> FALSE, forceNewWindow |-> FALSE, forceReuseWindow |-> FALSE,
      preferNewWindow |-> FALSE, forceNewTabbedWindow |-> FALSE,
      addMode |-> FALSE, diffMode |-> FALSE, gotoLineMode |-> FALSE, noRecentEntry |-> FALSE,
      initialStartup |-> FALSE, waitMarkerFileURI |-> FALSE, contextWindowId |-> 0,
      userEnvTermProgram |-> "" ]

BaseEnv ==
    [ display |-> PrimaryDisplay, newWindowDimensions |-> "default",
      wasRestarted |-> FALSE, restoreFullscreen |-> FALSE,
      openFoldersInNewWindow |-> "default", openFilesInNewWindow |-> "off",
      restoreWindows |-> "all", isMacintosh |-> FALSE, backups |-> NoBackups,
      createThrows |-> 0 ]

\* what lastOpen holds when no handler has run
NoHandler ==
    [ op |-> "none", id |-> 0, veto |-> FALSE, openConfig |-> BaseConfig, env |-> BaseEnv,
      before |-> <<>>, targets |-> <<>>, pathsToOpen |-> <<>>, usedWindows |-> <<>>,
      created |-> <<>>, focusLog |-> <<>>, loadLog |-> <<>>, sendLog |-> <<>>, placeLog |-> <<>>,
      focusPass |-> <<>>, recents |-> <<>>, deferred |-> <<>>, completedBefore |-> <<>>,
      listenersBefore |-> {}, lastClosedBefore |-> <<>>,
      thrown |-> FALSE, fired |-> <<>>, configAfter |-> BaseConfig ]

\* what a handler did, from the handler state it ended with
Ran(op, id, S) ==
    [NoHandler EXCEPT !.op = op, !.id = id, !.before = WINDOWS,
                      !.created = S.created, !.focusLog = S.focusLog, !.loadLog = S.loadLog,
                      !.sendLog = S.sendLog, !.placeLog = S.placeLog,
                      !.deferred = SubSeq(S.pendingLoads, Len(pendingLoads) + 1, Len(S.pendingLoads)),
                      !.completedBefore = completed,
                      !.lastClosedBefore = lastClosedWindowState,
                      !.listenersBefore = waitListeners.close \cup waitListeners.load,
                      !.thrown = S.thrown, !.fired = S.fired]

\* the variables a handler state is written back to
Commit(S) ==
    /\ WINDOWS' = NormalizeFocus(S.WINDOWS)
    /\ windowsState' = S.windowsState
    /\ lastClosedWindowState' = S.lastClosedWindowState
    /\ pendingLoads' = S.pendingLoads
    /\ waitListeners' = S.waitListeners
    /\ completed' = S.completed

WithinBounds(S) ==
    /\ Len(S.WINDOWS) <= MaxWindows
    /\ Len(S.pendingLoads) <= MaxPending
    /\ S.waitListeners.issued <= MaxMarkers

NoneClosing == \A i \in 1..Len(WINDOWS) : ~WINDOWS[i].closing

Init ==
    /\ WINDOWS = <<>>
    /\ windowsState = EmptyWindowsState
    /\ lastClosedWindowState = <<>>
    /\ stored = getWindowsStateStoreData(EmptyWindowsState)
    /\ quitRequested = FALSE
    /\ pendingLoads = <<>>
    /\ waitListeners = [close |-> {}, load |-> {}, issued |-> 0]
    /\ completed = <<>>
    /\ phase = "startup"
    /\ session = 1
    /\ calls = 0
    /\ lastOpen = NoHandler

\* windowsMainService.open(openConfig): on startup with initialStartup, later without
Open(openConfig, env) ==
    /\ \/ phase = "startup" /\ openConfig.initialStartup
       \/ phase = "running" /\ ~openConfig.initialStartup
    /\ NoneClosing
    /\ calls < MaxCalls
    /\ openConfig.contextWindowId \in {0} \cup WindowIdsIn(HandlerState(env))
    /\ CanCreateUntitled(HandlerState(env))
    /\ \E S0 \in {HandlerState(env)} : \E R \in {open(S0, openConfig, env)} :
           /\ WithinBounds(R.S)
           /\ Commit(R.S)
           /\ lastOpen' = [Ran("open", 0, R.S) EXCEPT
                               !.openConfig = openConfig, !.env = env,
                               !.configAfter = R.openConfig,
                               !.targets = extractPaths(S0, R.openConfig, env).windowsToOpen,
                               !.pathsToOpen = R.pathsToOpen,
                               !.usedWindows = IF R.S.thrown THEN <<>> ELSE R.usedWindows,
                               !.focusPass = R.S.focusPass,
                               !.recents = R.S.recents]
    /\ phase' = "running"
    /\ calls' = calls + 1
    /\ UNCHANGED <<stored, quitRequested, session>>

\* lifecycleMainService.unload(window, UnloadReason.LOAD) resolves for a load
\* that waited for it: without a veto the window loads the configuration
UnloadResolved(i, veto) ==
    /\ phase = "running"
    /\ i \in 1..Len(pendingLoads)
    /\ \E load \in {pendingLoads[i]} :
       \E S0 \in {[HandlerState(BaseEnv) EXCEPT
                       !.pendingLoads = SubSeq(@, 1, i - 1) \o SubSeq(@, i + 1, Len(@))]} :
       \E S1 \in {IF veto THEN S0
                   ELSE doOpenInBrowserWindow(S0, load.id, load.configuration, load.backupFolder)} :
           /\ Commit(S1)
           /\ lastOpen' = [Ran("load", load.id, S1) EXCEPT !.veto = veto]
    /\ UNCHANGED <<stored, quitRequested, phase, session, calls>>

\* ipc 'vscode:workbenchReady': window.setReady()
WindowReady(id) ==
    /\ phase = "running"
    /\ HasWindow(WINDOWS, id)
    /\ ~WindowById(WINDOWS, id).isReady
    /\ WINDOWS' = [WINDOWS EXCEPT ![IndexOfId(WINDOWS, id)].isReady = TRUE]
    /\ lastOpen' = Ran("ready", id, HandlerState(BaseEnv))
    /\ UNCHANGED <<windowsState, lastClosedWindowState, stored, quitRequested, pendingLoads,
                   waitListeners, completed, phase, session, calls>>

\* the user brings a window to the front
FocusWindow(id) ==
    /\ phase = "running"
    /\ HasWindow(WINDOWS, id)
    /\ lastActiveOf(WINDOWS) # id \/ WindowById(WINDOWS, id).lastFocusTime = 0
    /\ ~WindowById(WINDOWS, id).closing
    /\ \E S1 \in {focusWindow(HandlerState(BaseEnv), id)} :
           /\ Commit(S1)
           /\ lastOpen' = Ran("focus", id, S1)
    /\ UNCHANGED <<stored, quitRequested, phase, session, calls>>

\* the user moves a window: its bounds change
MoveWindow(id, x, y) ==
    /\ phase = "running"
    /\ HasWindow(WINDOWS, id)
    /\ ~WindowById(WINDOWS, id).closing
    /\ WindowById(WINDOWS, id).uiState.mode = "normal"
    /\ <<x, y>> # <<WindowById(WINDOWS, id).uiState.x, WindowById(WINDOWS, id).uiState.y>>
    /\ WINDOWS' = [WINDOWS EXCEPT ![IndexOfId(WINDOWS, id)].uiState.x = x,
                                  ![IndexOfId(WINDOWS, id)].uiState.y = y]
    /\ lastOpen' = Ran("move", id, HandlerState(BaseEnv))
    /\ UNCHANGED <<windowsState, lastClosedWindowState, stored, quitRequested, pendingLoads,
                   waitListeners, completed, phase, session, calls>>

\* lifecycleMainService.onBeforeWindowClose(window): the window is about to close
BeforeWindowClose(id) ==
    /\ phase \in {"running", "quitting"}
    /\ HasWindow(WINDOWS, id)
    /\ ~WindowById(WINDOWS, id).closing
    /\ \A i \in 1..Len(pendingLoads) : pendingLoads[i].id # id
    /\ \E S1 \in {onBeforeWindowClose(HandlerState(BaseEnv), quitRequested, id)} :
       \E S2 \in {[S1 EXCEPT !.WINDOWS[IndexOfId(WINDOWS, id)].closing = TRUE]} :
           /\ Commit(S2)
           /\ lastOpen' = Ran("beforeClose", id, S2)
    /\ UNCHANGED <<stored, quitRequested, phase, session, calls>>

\* the 'closed' event of a window whose close was announced: onWindowClosed(win)
WindowClosed(id) ==
    /\ phase \in {"running", "quitting"}
    /\ HasWindow(WINDOWS, id)
    /\ WindowById(WINDOWS, id).closing
    /\ \E S1 \in {onWindowClosed(HandlerState(BaseEnv), id)} :
           /\ Commit(S1)
           /\ lastOpen' = Ran("closed", id, S1)
    /\ UNCHANGED <<stored, quitRequested, phase, session, calls>>

\* the 'closed' event of the window that was just closed arrives once more:
\* the listener stays registered, and runs for a window that is not in the list
WindowClosedAgain(id) ==
    /\ phase \in {"running", "quitting"}
    /\ lastOpen.op = "closed"
    /\ lastOpen.id = id
    /\ ~HasWindow(WINDOWS, id)
    /\ \E S1 \in {onWindowClosed(HandlerState(BaseEnv), id)} :
           /\ Commit(S1)
           /\ lastOpen' = Ran("closed", id, S1)
    /\ UNCHANGED <<stored, quitRequested, phase, session, calls>>

\* lifecycleMainService.onBeforeShutdown: the application quits, with the
\* windows still open (quit) or after the last one closed
Shutdown ==
    /\ phase = "running"
    /\ pendingLoads = <<>>
    /\ stored' = getWindowsStateStoreData(onBeforeShutdown(WINDOWS, windowsState, lastClosedWindowState))
    /\ quitRequested' = TRUE
    /\ phase' = "quitting"
    /\ lastOpen' = Ran("shutdown", 0, HandlerState(BaseEnv))
    /\ UNCHANGED <<WINDOWS, windowsState, lastClosedWindowState, pendingLoads, waitListeners,
                   completed, session, calls>>

\* the application starts again: the constructor reads the stored windows state
Restart ==
    /\ phase = "quitting"
    /\ WINDOWS = <<>>
    /\ session < MaxSessions
    /\ windowsState' = restoreWindowsState(stored)
    /\ lastClosedWindowState' = <<>>
    /\ quitRequested' = FALSE
    /\ pendingLoads' = <<>>
    /\ waitListeners' = [close |-> {}, load |-> {}, issued |-> 0]
    /\ completed' = <<>>
    /\ phase' = "startup"
    /\ session' = session + 1
    /\ calls' = 0
    /\ lastOpen' = Ran("restart", 0, HandlerState(BaseEnv))
    /\ UNCHANGED <<WINDOWS, stored>>

----------------------------------------------------------------------------
(* Specifications *)

\* a command line call with the given path arguments
CliOpen(args) == [BaseConfig EXCEPT !.cli.args = args]

\* the open() call of the application start
StartupOpen(args) == [BaseConfig EXCEPT !.cli.args = args, !.initialStartup = TRUE]

\* an API call (urisToOpen) with the given openables
ApiOpen(urisToOpen) == [BaseConfig EXCEPT !.context = "API", !.urisToOpen = urisToOpen]

\* The command lines of up to MaxTargets folder arguments; "/A" is "/a" in
\* another case and "/a/" is "/a" with a trailing separator.
FolderArgs == SeqsUpTo({"/a", "/b"}, MaxTargets) \ {<<>>}

DedupConfigs ==
    {StartupOpen(<<>>)}
        \cup {CliOpen(args) : args \in FolderArgs}
        \cup {[CliOpen(<<"/a">>) EXCEPT !.addMode = TRUE]}
        \cup {ApiOpen(<<Openable("folderUri", FileUri("/a")), Openable("folderUri", RemoteUri("r1", "/b"))>>)}

\* open() calls, the workbench of a window getting ready and the unload of a
\* reused window resolving
DedupNext ==
    \/ \E openConfig \in DedupConfigs : Open(openConfig, BaseEnv)
    \/ \E i \in 1..MaxPending, veto \in BOOLEAN : UnloadResolved(i, veto)
    \/ \E id \in 1..MaxWindows : WindowReady(id)
    \/ \E id \in 1..MaxWindows : FocusWindow(id)

DedupSpec == Init /\ [][DedupNext]_vars

\* a folder and a workspace file, each opened in the window in use or in a new one
RegistryConfigs ==
    {StartupOpen(<<>>)}
        \cup {[CliOpen(<<path>>) EXCEPT !.forceNewWindow = new] :
                  path \in {"/a", "/w.code-workspace"}, new \in BOOLEAN}

\* open() calls, deferred loads and window closes
RegistryNext ==
    \/ \E openConfig \in RegistryConfigs : Open(openConfig, BaseEnv)
    \/ \E i \in 1..MaxPending, veto \in BOOLEAN : UnloadResolved(i, veto)
    \/ \E id \in 1..MaxWindows : WindowReady(id)
    \/ \E id \in 1..MaxWindows : BeforeWindowClose(id)
    \/ \E id \in 1..MaxWindows : WindowClosed(id)

RegistrySpec == Init /\ [][RegistryNext]_vars

\* what openExtensionDevelopmentHostWindow() passes to open() without paths
HostOpen ==
    [BaseConfig EXCEPT !.cli.extensionDevelopmentPath = "/ext", !.forceNewWindow = TRUE,
                       !.forceEmpty = TRUE, !.noRecentEntry = TRUE]

\* the application start, and a folder opened in a new window
QuitConfigs ==
    {StartupOpen(<<>>)} \cup {[CliOpen(<<path>>) EXCEPT !.forceNewWindow = TRUE] : path \in {"/a", "/b"}}

\* windows open, get the focus and close, and the application quits
QuitNext ==
    \/ \E openConfig \in QuitConfigs : Open(openConfig, BaseEnv)
    \/ \E id \in 1..MaxWindows : FocusWindow(id)
    \/ \E id \in 1..MaxWindows : BeforeWindowClose(id)
    \/ \E id \in 1..MaxWindows : WindowClosed(id)
    \/ Shutdown

QuitSpec == Init /\ [][QuitNext]_vars

\* the same with extension development host windows
HostQuitConfigs ==
    {StartupOpen(<<>>), [HostOpen EXCEPT !.initialStartup = TRUE], HostOpen,
     [CliOpen(<<"/a">>) EXCEPT !.forceNewWindow = TRUE]}

HostQuitNext ==
    \/ \E openConfig \in HostQuitConfigs : Open(openConfig, BaseEnv)
    \/ \E id \in 1..MaxWindows : FocusWindow(id)
    \/ \E id \in 1..MaxWindows : BeforeWindowClose(id)
    \/ \E id \in 1..MaxWindows : WindowClosed(id)
    \/ Shutdown

HostQuitSpec == Init /\ [][HostQuitNext]_vars

\* an empty window of remote authority r1, in a new window
RemoteEmptyOpen == [BaseConfig EXCEPT !.cli.remote = "r1", !.forceEmpty = TRUE, !.forceNewWindow = TRUE]

RestoreConfigs ==
    {StartupOpen(<<>>), [CliOpen(<<"/a">>) EXCEPT !.forceNewWindow = TRUE], RemoteEmptyOpen}

\* the setting window.restoreWindows
RestoreEnvs == {[BaseEnv EXCEPT !.restoreWindows = r] : r \in {"all", "one"}}

\* windows open and close, the application quits and starts again
RestoreNext ==
    \/ \E openConfig \in RestoreConfigs, env \in RestoreEnvs : Open(openConfig, env)
    \/ \E id \in 1..MaxWindows : BeforeWindowClose(id)
    \/ \E id \in 1..MaxWindows : WindowClosed(id)
    \/ Shutdown
    \/ Restart

RestoreSpec == Init /\ [][RestoreNext]_vars

\* a new window on /a, on /b, or empty
PlaceConfigs ==
    {StartupOpen(<<>>)}
        \cup {[CliOpen(<<p>>) EXCEPT !.forceNewWindow = TRUE] : p \in {"/a", "/b"}}
        \cup {[BaseConfig EXCEPT !.forceEmpty = TRUE, !.forceNewWindow = TRUE]}

\* the display the new window goes to and the setting window.newWindowDimensions
PlaceEnvs ==
    {[BaseEnv EXCEPT !.display = d, !.newWindowDimensions = n] :
        d \in Displays, n \in {"default", "inherit"}}

\* where the user moves a window to
MovePositions == {OverlapStep, 2 * OverlapStep}

\* new windows are placed while the user moves windows
PlaceNext ==
    \/ \E openConfig \in PlaceConfigs, env \in PlaceEnvs : Open(openConfig, env)
    \/ \E id \in 1..MaxWindows, x, y \in MovePositions : MoveWindow(id, x, y)

PlaceSpec == Init /\ [][PlaceNext]_vars

\* code --wait on a folder, in the window in use or in a new one
WaitOpen(path, forceNewWindow) ==
    [CliOpen(<<path>>) EXCEPT !.waitMarkerFileURI = TRUE, !.forceNewWindow = forceNewWindow]

WaitConfigs ==
    {StartupOpen(<<>>), [CliOpen(<<"/b">>) EXCEPT !.forceNewWindow = TRUE]}
        \cup {WaitOpen(p, n) : p \in {"/a", "/b"}, n \in BOOLEAN}

\* windows are opened with --wait, load, and close
WaitNext ==
    \/ \E openConfig \in WaitConfigs : Open(openConfig, BaseEnv)
    \/ \E i \in 1..MaxPending, veto \in BOOLEAN : UnloadResolved(i, veto)
    \/ \E id \in 1..MaxWindows : WindowReady(id)
    \/ \E id \in 1..MaxWindows : BeforeWindowClose(id)
    \/ \E id \in 1..MaxWindows : WindowClosed(id)

WaitSpec == Init /\ [][WaitNext]_vars

\* a folder opened with default flags, at the application start or later
FirstConfigs ==
    {StartupOpen(<<>>), StartupOpen(<<"/a">>), CliOpen(<<"/a">>),
     [CliOpen(<<"/b">>) EXCEPT !.forceNewWindow = TRUE]}

FirstEnvs == {[BaseEnv EXCEPT !.display = d] : d \in Displays}

\* folders are opened with and without live windows, in a first and in a later session
FirstNext ==
    \/ \E openConfig \in FirstConfigs, env \in FirstEnvs : Open(openConfig, env)
    \/ \E id \in 1..MaxWindows : BeforeWindowClose(id)
    \/ \E id \in 1..MaxWindows : WindowClosed(id)
    \/ Shutdown
    \/ Restart

FirstSpec == Init /\ [][FirstNext]_vars

\* code --diff with one, two or three files, or with files and a folder
DiffArgs ==
    { <<"/f.txt">>, <<"/f.txt", "/g.txt">>, <<"/f.txt", "/a/h.txt">>,
      <<"/f.txt", "/g.txt", "/a/h.txt">>, <<"/f.txt", "/g.txt", "/a">> }

DiffConfigs ==
    {StartupOpen(<<>>), CliOpen(<<"/a">>), CliOpen(<<"/f.txt", "/g.txt">>),
     [CliOpen(<<"/f.txt", "/g.txt">>) EXCEPT !.diffMode = TRUE, !.forceNewWindow = TRUE],
     ApiOpen(<<Openable("folderUri", RemoteUri("r1", "/b"))>>)}
        \cup {[CliOpen(args) EXCEPT !.diffMode = TRUE] : args \in DiffArgs}

\* files are opened and compared while windows load
DiffNext ==
    \/ \E openConfig \in DiffConfigs : Open(openConfig, BaseEnv)
    \/ \E i \in 1..MaxPending, veto \in BOOLEAN : UnloadResolved(i, veto)
    \/ \E id \in 1..MaxWindows : WindowReady(id)

DiffSpec == Init /\ [][DiffNext]_vars

\* what hot exit left in the backup registry: a folder, a workspace and an empty window
HotExitBackups ==
    [ folders |-> <<FileUri("/a")>>,
      workspaces |-> <<[workspace |-> getWorkspaceIdentifier(FileUri("/w.code-workspace")), remoteAuthority |-> ""]>>,
      untitled |-> <<>>,
      empties |-> <<[backupFolder |-> MaxWindows + 1, remoteAuthority |-> ""]>> ]

\* calls with and without paths, at the application start and later
BackupConfigs ==
    {StartupOpen(<<>>), StartupOpen(<<"/b">>), CliOpen(<<>>),
     [CliOpen(<<"/b">>) EXCEPT !.forceNewWindow = TRUE]}

BackupEnvs == {BaseEnv, [BaseEnv EXCEPT !.backups = HotExitBackups]}

\* windows are opened with and without backups in the registry, over two sessions
BackupNext ==
    \/ \E openConfig \in BackupConfigs, env \in BackupEnvs : Open(openConfig, env)
    \/ \E id \in 1..MaxWindows : BeforeWindowClose(id)
    \/ \E id \in 1..MaxWindows : WindowClosed(id)
    \/ Shutdown
    \/ Restart

BackupSpec == Init /\ [][BackupNext]_vars

\* one target of each kind the command line can name: a path, a file: URI
\* and URIs of the remotes r1 and r2
ResolveClis ==
    { [BaseCli EXCEPT !.args = <<"/a">>],
      [BaseCli EXCEPT !.args = <<"/f.txt">>],
      [BaseCli EXCEPT !.folderUris = <<FileUri("/b")>>],
      [BaseCli EXCEPT !.fileUris = <<FileUri("/f.txt")>>],
      [BaseCli EXCEPT !.folderUris = <<RemoteUri("r1", "/b")>>],
      [BaseCli EXCEPT !.folderUris = <<RemoteUri("r2", "/b")>>] }

\* a target that does not resolve: a path that is not on disk (API) and an
\* empty argument (command line)
MissingFolder == Openable("folderUri", FileUri("/missing"))
MissingFile == Openable("fileUri", FileUri("/missing.txt"))

ResolveConfigs ==
    {StartupOpen(<<>>)}
        \cup {[BaseConfig EXCEPT !.cli = [cli EXCEPT !.remote = remote]] :
                 cli \in ResolveClis, remote \in {"", "r1"}}
        \cup {ApiOpen(<<MissingFolder, Openable("folderUri", FileUri("/a"))>>),
              ApiOpen(<<Openable("fileUri", FileUri("/f.txt")), MissingFile>>),
              ApiOpen(<<Openable("folderUri", RemoteUri("r1", "/b")), MissingFolder>>),
              CliOpen(<<"", "/a">>), CliOpen(<<"/f.txt", "">>),
              ApiOpen(<<MissingFolder>>), ApiOpen(<<Openable("fileUri", FileUri("/w.code-workspace"))>>),
              CliOpen(<<"/missing.txt">>), CliOpen(<<"/w.code-workspace">>)}

\* targets are resolved and opened while windows load
ResolveNext ==
    \/ \E openConfig \in ResolveConfigs : Open(openConfig, BaseEnv)
    \/ \E i \in 1..MaxPending, veto \in BOOLEAN : UnloadResolved(i, veto)
    \/ \E id \in 1..MaxWindows : WindowReady(id)

ResolveSpec == Init /\ [][ResolveNext]_vars

\* MaxThrows bounds which creation of a call the host can fail
MaxThrows == 2

\* calls that create one window, two windows, or reuse one
FailConfigs ==
    {StartupOpen(<<>>), CliOpen(<<"/b">>),
     [CliOpen(<<"/a">>) EXCEPT !.forceNewWindow = TRUE],
     [CliOpen(<<"/a", "/w.code-workspace">>) EXCEPT !.forceNewWindow = TRUE]}

FailEnvs == {[BaseEnv EXCEPT !.createThrows = n] : n \in 0..MaxThrows}

\* windows are opened by a host that can fail to create one, and are closed
FailNext ==
    \/ \E openConfig \in FailConfigs, env \in FailEnvs : Open(openConfig, env)
    \/ \E id \in 1..MaxWindows : WindowReady(id)
    \/ \E id \in 1..MaxWindows : BeforeWindowClose(id)
    \/ \E id \in 1..MaxWindows : WindowClosed(id)

FailSpec == Init /\ [][FailNext]_vars

\* the values of the settings window.openFoldersInNewWindow and
\* window.openFilesInNewWindow, and the contexts a call can come from
FolderSettings == {"default", "on", "off"}
FileSettings == {"default", "on", "off"}
OpenContexts == {"CLI", "MENU", "DOCK", "DIALOG", "DESKTOP", "API"}

\* one folder or one file, with each combination of the two flags
DecideConfigs ==
    {StartupOpen(<<>>)}
        \cup {[CliOpen(args) EXCEPT !.forceNewWindow = new, !.forceReuseWindow = reuse] :
                 args \in {<<"/a">>, <<"/f.txt">>}, new \in BOOLEAN, reuse \in BOOLEAN}
        \cup {[CliOpen(<<"/b">>) EXCEPT !.context = "MENU"]}

DecideEnvs ==
    {BaseEnv, [BaseEnv EXCEPT !.openFoldersInNewWindow = "on", !.openFilesInNewWindow = "off"],
     [BaseEnv EXCEPT !.openFoldersInNewWindow = "off", !.openFilesInNewWindow = "on"]}

\* folders and files are opened with the flags and the settings in every combination
DecideNext ==
    \/ \E openConfig \in DecideConfigs, env \in DecideEnvs : Open(openConfig, env)
    \/ \E id \in 1..MaxWindows : WindowReady(id)
    \/ \E i \in 1..MaxPending, veto \in BOOLEAN : UnloadResolved(i, veto)

DecideSpec == Init /\ [][DecideNext]_vars

\* an extension development host is opened, and folders and files are
\* opened from the command line and the API without asking for a new window
HostReuseConfigs ==
    {StartupOpen(<<>>), HostOpen, CliOpen(<<"/a">>), CliOpen(<<"/f.txt">>),
     ApiOpen(<<Openable("folderUri", FileUri("/b"))>>)}

HostReuseNext ==
    \/ \E openConfig \in HostReuseConfigs : Open(openConfig, BaseEnv)
    \/ \E i \in 1..MaxPending, veto \in BOOLEAN : UnloadResolved(i, veto)
    \/ \E id \in 1..MaxWindows : WindowReady(id)
    \/ \E id \in 1..MaxWindows : FocusWindow(id)

HostReuseSpec == Init /\ [][HostReuseNext]_vars

\* the settings window.newWindowDimensions and window.restoreFullscreen, and
\* a start after an update
FullscreenEnvs ==
    {[BaseEnv EXCEPT !.newWindowDimensions = n] : n \in {"default", "fullscreen", "inherit"}}
        \cup {[BaseEnv EXCEPT !.restoreFullscreen = TRUE], [BaseEnv EXCEPT !.wasRestarted = TRUE]}

FullscreenConfigs == {StartupOpen(<<>>), [CliOpen(<<"/a">>) EXCEPT !.forceNewWindow = TRUE]}

\* windows open in and out of fullscreen, close, and are restored in the next session
FullscreenNext ==
    \/ \E openConfig \in FullscreenConfigs, env \in FullscreenEnvs : Open(openConfig, env)
    \/ \E id \in 1..MaxWindows : BeforeWindowClose(id)
    \/ \E id \in 1..MaxWindows : WindowClosed(id)
    \/ Shutdown
    \/ Restart

FullscreenSpec == Init /\ [][FullscreenNext]_vars

\* folders are opened and added to the window that is open
AddConfigs ==
    {StartupOpen(<<>>), [StartupOpen(<<"/a">>) EXCEPT !.addMode = TRUE],
     CliOpen(<<"/a">>), [CliOpen(<<"/b">>) EXCEPT !.addMode = TRUE],
     [CliOpen(<<"/a", "/b">>) EXCEPT !.addMode = TRUE],
     [CliOpen(<<"/a">>) EXCEPT !.addMode = TRUE, !.cli.remote = "r1"],
     [CliOpen(<<"/b">>) EXCEPT !.cli.remote = "r1", !.forceNewWindow = TRUE]}

AddNext ==
    \/ \E openConfig \in AddConfigs : Open(openConfig, BaseEnv)
    \/ \E i \in 1..MaxPending, veto \in BOOLEAN : UnloadResolved(i, veto)
    \/ \E id \in 1..MaxWindows : WindowReady(id)
    \/ \E id \in 1..MaxWindows : BeforeWindowClose(id)
    \/ \E id \in 1..MaxWindows : WindowClosed(id)

AddSpec == Init /\ [][AddNext]_vars

\* folder, workspace, empty and extension development host windows
SnapshotConfigs ==
    {StartupOpen(<<>>), HostOpen}
        \cup {[CliOpen(<<path>>) EXCEPT !.forceNewWindow = TRUE] : path \in {"/a", "/w.code-workspace"}}
        \cup {[CliOpen(<<"/w.code-workspace">>) EXCEPT !.forceReuseWindow = TRUE]}

\* windows open and are loaded again, close, and the application quits
SnapshotNext ==
    \/ \E openConfig \in SnapshotConfigs : Open(openConfig, BaseEnv)
    \/ \E id \in 1..MaxWindows : BeforeWindowClose(id)
    \/ \E id \in 1..MaxWindows : WindowClosed(id)
    \/ Shutdown

SnapshotSpec == Init /\ [][SnapshotNext]_vars

\* paths, URIs and several folders at once, and the windows of the last session
PathConfigs ==
    {StartupOpen(<<>>), CliOpen(<<"/a", "/b">>), CliOpen(<<"/f.txt">>),
     ApiOpen(<<Openable("folderUri", FileUri("/a")), Openable("fileUri", FileUri("/w.code-workspace"))>>),
     ApiOpen(<<Openable("folderUri", RemoteUri("r1", "/a")), Openable("fileUri", RemoteUri("r1", "/f.txt"))>>)}

\* targets are resolved, the application quits and starts again
PathNext ==
    \/ \E openConfig \in PathConfigs : Open(openConfig, [BaseEnv EXCEPT !.restoreWindows = "all"])
    \/ \E id \in 1..MaxWindows : BeforeWindowClose(id)
    \/ \E id \in 1..MaxWindows : WindowClosed(id)
    \/ Shutdown
    \/ Restart

PathSpec == Init /\ [][PathNext]_vars

\* the values of the setting window.restoreWindows
RestorePolicies == {"all", "folders", "one", "none"}

PolicyConfigs ==
    {[CliOpen(<<path>>) EXCEPT !.forceNewWindow = TRUE] : path \in {"/a", "/w.code-workspace"}}
        \cup {RemoteEmptyOpen}

\* folder, workspace and empty windows are opened in the first session and are
\* open when the application quits, and it starts again under each setting
PolicyNext ==
    \/ \E r \in RestorePolicies : Open(StartupOpen(<<>>), [BaseEnv EXCEPT !.restoreWindows = r])
    \/ session = 1 /\ \E openConfig \in PolicyConfigs : Open(openConfig, BaseEnv)
    \/ \E id \in 1..MaxWindows : BeforeWindowClose(id)
    \/ \E id \in 1..MaxWindows : WindowClosed(id)
    \/ Shutdown
    \/ Restart

PolicySpec == Init /\ [][PolicyNext]_vars

\* a workspace and a folder, and folders of two remote authorities, in one call
MultiConfigs ==
    {StartupOpen(<<>>), CliOpen(<<"/a">>), CliOpen(<<"/w.code-workspace">>),
     ApiOpen(<<Openable("workspaceUri", FileUri("/w.code-workspace")), Openable("folderUri", FileUri("/a"))>>),
     ApiOpen(<<Openable("folderUri", FileUri("/a")), Openable("folderUri", RemoteUri("r1", "/b"))>>),
     [CliOpen(<<"/b", "/w.code-workspace">>) EXCEPT !.addMode = TRUE]}

\* calls with several targets while windows show some of them, are ready or not
MultiNext ==
    \/ \E openConfig \in MultiConfigs : Open(openConfig, BaseEnv)
    \/ \E i \in 1..MaxPending, veto \in BOOLEAN : UnloadResolved(i, veto)
    \/ \E id \in 1..MaxWindows : WindowReady(id)
    \/ \E id \in 1..MaxWindows : FocusWindow(id)

MultiSpec == Init /\ [][MultiNext]_vars

\* files alone, files with a folder of their own or of another remote
\* authority, and a file of a folder that a window shows
BatchConfigs ==
    {StartupOpen(<<>>), CliOpen(<<"/a">>), CliOpen(<<"/f.txt", "/g.txt">>), CliOpen(<<"/a/h.txt">>),
     [CliOpen(<<"/f.txt", "/g.txt">>) EXCEPT !.diffMode = TRUE],
     [CliOpen(<<"/f.txt">>) EXCEPT !.forceNewWindow = TRUE],
     ApiOpen(<<Openable("folderUri", FileUri("/a")), Openable("fileUri", FileUri("/f.txt"))>>),
     ApiOpen(<<Openable("folderUri", RemoteUri("r1", "/b")), Openable("fileUri", FileUri("/f.txt"))>>)}

\* files are opened while windows show folders, are ready or are loading
BatchNext ==
    \/ \E openConfig \in BatchConfigs : Open(openConfig, BaseEnv)
    \/ \E i \in 1..MaxPending, veto \in BOOLEAN : UnloadResolved(i, veto)
    \/ \E id \in 1..MaxWindows : WindowReady(id)

BatchSpec == Init /\ [][BatchNext]_vars

\* folders and an empty window, each in a window of its own
CloseConfigs ==
    {StartupOpen(<<>>)} \cup {[CliOpen(<<path>>) EXCEPT !.forceNewWindow = TRUE] : path \in {"/a", "/b"}}

\* windows open, get the focus and close, and a closed event may come twice
CloseNext ==
    \/ \E openConfig \in CloseConfigs : Open(openConfig, BaseEnv)
    \/ \E id \in 1..MaxWindows : FocusWindow(id)
    \/ \E id \in 1..MaxWindows : BeforeWindowClose(id)
    \/ \E id \in 1..MaxWindows : WindowClosed(id)
    \/ \E id \in 1..MaxWindows : WindowClosedAgain(id)

CloseSpec == Init /\ [][CloseNext]_vars

----------------------------------------------------------------------------
(* Folder targets of an open() call: C1, C2, C3 (under DedupSpec) *)

\* the folder targets the last open() call resolved
FolderTargets == SelectSeq(lastOpen.targets, LAMBDA path : path.folderUri # NoUri)

\* the last handler was an open() call whose targets are folders, all the same one
SameFolderCall ==
    /\ lastOpen.op = "open"
    /\ lastOpen.targets # <<>>
    /\ FolderTargets = lastOpen.targets
    /\ \A i \in 1..Len(FolderTargets) : isEqual(FolderTargets[i].folderUri, FolderTargets[1].folderUri)

\* what a window shows, or a configuration names, has the folder as its folder or as a root
Names(folderUri, workspace, F) ==
    \/ folderUri # NoUri /\ isEqual(folderUri, F)
    \/ \E i \in 1..Len(workspace.folders) : isEqual(workspace.folders[i], F)

\* The windows touching folder F: those showing it, those about to load it
\* once their unload resolves and those it was added to by the last call.
Touching(F) ==
    {WINDOWS[i].id : i \in {j \in 1..Len(WINDOWS) :
                               Names(WINDOWS[j].openedFolderUri, WINDOWS[j].openedWorkspace, F)}}
        \cup {pendingLoads[i].id : i \in {j \in 1..Len(pendingLoads) :
                               Names(pendingLoads[j].configuration.folderUri,
                                     pendingLoads[j].configuration.workspace, F)}}
        \cup {lastOpen.sendLog[i].id : i \in {j \in 1..Len(lastOpen.sendLog) :
                               \E k \in 1..Len(lastOpen.sendLog[j].foldersToAdd) :
                                   isEqual(lastOpen.sendLog[j].foldersToAdd[k], F)}}

\* C1: after an open() call whose N >= 1 folder targets all resolve to the
\* same folder, exactly one window of the registry touches that folder (it
\* shows it as its folder or as a workspace root).
C1_OneWindowTouchesFolder ==
    SameFolderCall => Cardinality(Touching(FolderTargets[1].folderUri)) = 1

\* the last handler was an open() call from the command line or the API
CommandLineOrAPICall ==
    /\ lastOpen.op = "open"
    /\ \/ lastOpen.openConfig.urisToOpen # <<>>
       \/ /\ ~lastOpen.openConfig.forceEmpty
          /\ \/ lastOpen.openConfig.cli.args # <<>>
             \/ lastOpen.openConfig.cli.folderUris # <<>>
             \/ lastOpen.openConfig.cli.fileUris # <<>>

\* the loads the last call made or left waiting for an unload, as configurations
LoadsOfCall ==
    SeqMap(LAMBDA l : l.configuration, lastOpen.loadLog) \o SeqMap(LAMBDA l : l.configuration, lastOpen.deferred)

\* C2: an open() call from CLI or API with addMode false that resolves k >= 2
\* folder targets of one remote authority replaces them by one untitled
\* workspace holding the k folders and opens exactly one window for it and
\* none for a single folder; with folders of several authorities no
\* workspace is made.
C2_FoldersBecomeOneWorkspace ==
    (CommandLineOrAPICall /\ ~lastOpen.openConfig.addMode /\ Len(FolderTargets) >= 2) =>
        IF \A i \in 1..Len(FolderTargets) : FolderTargets[i].remoteAuthority = FolderTargets[1].remoteAuthority
        THEN LET paths == lastOpen.pathsToOpen
                 made == paths[Len(paths)]
             IN  /\ paths # <<>>
                 /\ \A i \in 1..Len(paths) : paths[i].folderUri = NoUri
                 /\ made.workspace.id \in UntitledIds
                 /\ made.workspace.folders = SeqMap(folderUriOf, FolderTargets)
                 /\ made.remoteAuthority = FolderTargets[1].remoteAuthority
                 /\ \A i \in 1..Len(lastOpen.targets) : lastOpen.targets[i].workspace.id # made.workspace.id
                 /\ Len(SelectSeq(LoadsOfCall, LAMBDA c : c.workspace = made.workspace)) = 1
                 /\ Len(SelectSeq(LoadsOfCall, LAMBDA c : c.folderUri # NoUri)) = 0
        ELSE lastOpen.pathsToOpen = lastOpen.targets

\* C2 witness: a call with the two folders /a and /b left a window on a workspace of both
C2_Witness ==
    /\ CommandLineOrAPICall
    /\ SeqMap(folderUriOf, FolderTargets) = <<FileUri("/a"), FileUri("/b")>>
    /\ \E i \in 1..Len(WINDOWS) : /\ WINDOWS[i].openedWorkspace.folders = <<FileUri("/a"), FileUri("/b")>>
                                  /\ WINDOWS[i].id \in Range(lastOpen.usedWindows)

\* the first of the windows that shows folder F, 0 without one
ShowingFolder(windows, F) ==
    LET on == {i \in 1..Len(windows) : windows[i].openedFolderUri # NoUri /\ isEqual(windows[i].openedFolderUri, F)}
    IN  IF on = {} THEN 0 ELSE windows[Min(on)].id

\* the last handler was an open() call whose only target is a folder a window showed
OnlyTargetIsShownFolder ==
    /\ lastOpen.op = "open"
    /\ Len(lastOpen.targets) = 1
    /\ lastOpen.targets[1].folderUri # NoUri
    /\ ShowingFolder(lastOpen.before, lastOpen.targets[1].folderUri) # 0

\* the call matched the window on the folder, focused it and created no window
ReusedWindowOnFolder ==
    LET w == ShowingFolder(lastOpen.before, lastOpen.targets[1].folderUri)
    IN  /\ lastOpen.created = <<>>
        /\ Len(WINDOWS) = Len(lastOpen.before)
        /\ lastOpen.usedWindows = <<w>>
        /\ lastOpen.focusLog = <<w>>
        /\ lastActiveOf(WINDOWS) = w
        /\ LoadsOfCall = <<>>

----------------------------------------------------------------------------
(* The registry: C4 (under RegistrySpec) *)

\* C4: in every reachable state no two live windows show the same workspace
\* identity and no two show the same folder URI.
C4_NoTwoWindowsOnSameIdentity ==
    \A i, j \in 1..Len(WINDOWS) :
        i # j =>
            /\ ~(WINDOWS[i].openedWorkspace.id # 0 /\ WINDOWS[i].openedWorkspace.id = WINDOWS[j].openedWorkspace.id)
            /\ ~(WINDOWS[i].openedFolderUri # NoUri /\ isEqual(WINDOWS[i].openedFolderUri, WINDOWS[j].openedFolderUri))

----------------------------------------------------------------------------
(* The snapshot written at shutdown: C5 (under HostQuitSpec), C6 and C7     *)
(* (under QuitSpec)                                                         *)

\* the last handler wrote the snapshot with exactly one window open
ShutdownWithOneWindow == lastOpen.op = "shutdown" /\ Len(lastOpen.before) = 1

\* the snapshot names the one window as the last active one and no opened windows
OneWindowSnapshot ==
    /\ restoreWindowsState(stored).lastActiveWindow = <<toWindowState(lastOpen.before[1])>>
    /\ stored.openedWindows = <<>>

C6_LastActiveAlwaysPopulated == lastOpen.op = "shutdown" => stored.lastActiveWindow # <<>>

\* onBeforeWindowClose for each of the windows, none of them closed yet
RECURSIVE announceAll(_, _)
announceAll(S, ids) ==
    IF ids = <<>> THEN S ELSE announceAll(onBeforeWindowClose(S, FALSE, Head(ids)), Tail(ids))

\* onWindowClosed for each of the windows
RECURSIVE closeAll(_, _)
closeAll(S, ids) ==
    IF ids = <<>> THEN S ELSE closeAll(onWindowClosed(S, Head(ids)), Tail(ids))

\* the snapshot onBeforeShutdown writes in handler state S
SnapshotIn(S) == getWindowsStateStoreData(onBeforeShutdown(S.WINDOWS, S.windowsState, S.lastClosedWindowState))

\* quit(N): onBeforeShutdown first; the closes that follow return early
ShutdownThenClose == SnapshotIn(HandlerState(BaseEnv))

\* closeAll(N): onBeforeWindowClose per window, the windows close, onBeforeShutdown(0)
CloseThenShutdown ==
    SnapshotIn(closeAll(announceAll(HandlerState(BaseEnv), SeqMap(LAMBDA w : w.id, WINDOWS)),
                        SeqMap(LAMBDA w : w.id, WINDOWS)))

\* the window identities a snapshot holds
PersistedIdentities(data) ==
    {<<o.workspaceIdentifier.id, o.folder, o.backupPath>> :
        o \in Range(data.openedWindows) \cup Range(data.lastActiveWindow)}

\* C7: for the windows open when a shutdown sequence starts, the order
\* "before-shutdown, then before-window-close per window" and the order
\* "before-window-close per window, then before-shutdown" persist the same
\* window identities.
C7_SnapshotIndependentOfOrder ==
    (phase = "running" /\ NoneClosing /\ pendingLoads = <<>>) =>
        PersistedIdentities(ShutdownThenClose) = PersistedIdentities(CloseThenShutdown)

----------------------------------------------------------------------------
(* Restoring the windows of the last session: C8 (under RestoreSpec) *)

\* the snapshots doGetWindowsFromLastSession reads under the setting 'all'
Snapshots == restoreWindowsState(stored).openedWindows \o restoreWindowsState(stored).lastActiveWindow

\* what a snapshot or a loaded configuration names: workspace, folder or
\* backup slot of an empty window, and the remote authority
IdentityOf(workspace, folderUri, backupPath, remoteAuthority) ==
    IF workspace.id # 0 THEN <<"workspace", workspace.id, remoteAuthority>>
    ELSE IF folderUri # NoUri THEN <<"folder", getComparisonKey(folderUri), remoteAuthority>>
    ELSE <<"empty", backupPath.slot, remoteAuthority>>

SnapshotIdentity(o) == IdentityOf(o.workspace, o.folderUri, o.backupPath, o.remoteAuthority)

\* the snapshots that are restored: not the empty windows of a remote authority
Restorable(o) ==
    o.workspace.id # 0 \/ o.folderUri # NoUri \/ (o.backupPath # NoBackup /\ o.remoteAuthority = "")

\* the identities the windows created by the last call were loaded with
CreatedIdentities ==
    {IdentityOf(l.configuration.workspace, l.configuration.folderUri, l.configuration.backupPath,
                l.configuration.remoteAuthority) :
        l \in {x \in Range(lastOpen.loadLog) : x.id \in Range(lastOpen.created)}}

\* the last handler was the open() call of the application start, without
\* targets, restoring under the setting 'all' a state of two opened windows
RestoreOfTwo ==
    /\ lastOpen.op = "open"
    /\ lastOpen.openConfig.initialStartup
    /\ lastOpen.openConfig.urisToOpen = <<>>
    /\ ~lastOpen.openConfig.forceEmpty
    /\ lastOpen.openConfig.cli.args = <<>>
    /\ lastOpen.openConfig.cli.folderUris = <<>>
    /\ lastOpen.openConfig.cli.fileUris = <<>>
    /\ getRestoreWindowsSetting(lastOpen.env) = "all"
    /\ Len(stored.openedWindows) = 2

\* C8: the open() call of the application start, without targets and with
\* nothing else to restore from backups, under the setting 'all' and a
\* persisted state of 2 opened windows creates one window per distinct
\* identity of the restorable snapshots (opened windows and last active
\* window; empty windows of a remote authority are not restorable), each
\* loaded with that snapshot's identity and remote authority, and one empty
\* window if no snapshot is restorable.
C8_RestoresEachSnapshotOnce ==
    (/\ RestoreOfTwo
     /\ lastOpen.openConfig.cli.extensionDevelopmentPath = ""
     /\ ~lastOpen.openConfig.cli.disableRestoreWindows
     /\ lastOpen.env.backups = NoBackups) =>
        LET want == {SnapshotIdentity(o) : o \in {x \in Range(Snapshots) : Restorable(x)}}
        IN  /\ Len(lastOpen.created) = Len(lastOpen.loadLog)
            /\ IF want = {}
               THEN Len(lastOpen.created) = 1 /\ \A id \in CreatedIdentities : id[1] = "empty"
               ELSE Len(lastOpen.created) = Cardinality(want) /\ CreatedIdentities = want

\* C8 as the specification states it: exactly 2 creations, one per opened window
C8_RestoresTwoWindows ==
    RestoreOfTwo =>
        /\ Len(lastOpen.created) = 2
        /\ \A o \in Range(restoreWindowsState(stored).openedWindows) : SnapshotIdentity(o) \in CreatedIdentities

\* C8 witness: two windows were restored, one of them on folder /a
C8_Witness ==
    /\ RestoreOfTwo
    /\ Len(lastOpen.created) = 2
    /\ \E i \in 1..Len(WINDOWS) : WINDOWS[i].openedFolderUri = FileUri("/a")

----------------------------------------------------------------------------
(* Placing a new window: C9 (under PlaceSpec) *)

\* the placements of the last call that went through ensureNoOverlap: a
\* default state, neither inherited from the last active window nor maximized
\* or fullscreen by the setting
PlacedWithoutOverlap ==
    {p \in Range(lastOpen.placeLog) :
        /\ p.hasDefaultState
        /\ \/ lastOpen.env.newWindowDimensions = "default"
           \/ lastOpen.env.newWindowDimensions = "inherit" /\ p.live = {}}

\* C9: a new window placed with default dimensions is put, after a number of
\* shifts of (+30, +30) below the bound, at a top-left that no window live at
\* that moment has; when the only live window sits at the computed default
\* position, the new window is offset from it by exactly one step.
C9_NewWindowAvoidsOverlap ==
    lastOpen.op = "open" =>
        \A p \in PlacedWithoutOverlap :
            LET default == centeredState(lastOpen.env.display)
            IN  /\ p.shifts < MaxShifts
                /\ p.state.x = default.x + p.shifts * OverlapStep
                /\ p.state.y = default.y + p.shifts * OverlapStep
                /\ \A b \in p.live : <<b.x, b.y>> # <<p.state.x, p.state.y>>
                /\ p.live = {[x |-> default.x, y |-> default.y]} =>
                       /\ p.state.x = default.x + OverlapStep
                       /\ p.state.y = default.y + OverlapStep

\* C9 witness: window B was placed while window A sat at the computed default
\* position, and was shifted
C9_Witness ==
    /\ lastOpen.op = "open"
    /\ \E p \in PlacedWithoutOverlap :
           /\ p.live = {[x |-> centeredState(lastOpen.env.display).x,
                         y |-> centeredState(lastOpen.env.display).y]}
           /\ p.shifts = 1

----------------------------------------------------------------------------
(* The wait marker of code --wait: C10 (under WaitSpec) *)

\* how often marker m was completed
Completions(m) == Cardinality({i \in 1..Len(completed) : completed[i] = m})

\* the listeners that waited for the window the last handler closed
WaitedForClosed ==
    {l \in lastOpen.listenersBefore : lastOpen.op = "closed" /\ l.windowId = lastOpen.id}

\* C10: when the window an open() call with a wait marker resulted in closes,
\* the marker is completed, exactly once; a completed marker has neither its
\* close nor its load subscription left, so that no later signal for the
\* window id completes it again.
C10_WaitMarkerCompletesOnce ==
    /\ \A l \in WaitedForClosed :
           /\ Completions(l.marker) = 1
           /\ l.marker \notin Range(lastOpen.completedBefore)
    /\ \A m \in 1..waitListeners.issued :
           /\ Completions(m) <= 1
           /\ Completions(m) = 1 =>
                  \A l \in waitListeners.close \cup waitListeners.load : l.marker # m
           /\ Completions(m) = 0 =>
                  \E l \in waitListeners.close \cap waitListeners.load : l.marker = m

\* C10 witness: the close of a window completed the marker waiting for it,
\* and no listener is left registered
C10_Witness ==
    /\ WaitedForClosed # {}
    /\ \A l \in WaitedForClosed : Completions(l.marker) = 1
    /\ waitListeners.close \cup waitListeners.load = {}

----------------------------------------------------------------------------
(* When the wait marker completes: C11 (under WaitSpec) *)

\* the last handler was an open() call that registered a wait listener: its
\* marker is the one issued last
RegisteredByLastCall ==
    /\ lastOpen.op = "open"
    /\ lastOpen.openConfig.context = "CLI"
    /\ lastOpen.openConfig.waitMarkerFileURI
    /\ Len(lastOpen.usedWindows) = 1

\* the one load the last open() call left waiting for the unload of its window,
\* no other load waiting for that window
OwnDeferredLoad ==
    /\ Len(lastOpen.deferred) = 1
    /\ lastOpen.deferred[1].id = lastOpen.usedWindows[1]
    /\ Cardinality({i \in 1..Len(pendingLoads) : pendingLoads[i].id = lastOpen.usedWindows[1]}) = 1

\* markers complete only in handlers that close or load a window; the
\* marker an open() call registers is not completed within that call, nor by
\* the load the call deferred on the window it reuses
WaitMarkerStep ==
    /\ completed' # completed => lastOpen'.op \in {"open", "load", "closed"}
    /\ (lastOpen'.op = "open" /\ waitListeners'.issued # waitListeners.issued) =>
           waitListeners'.issued \notin Range(completed')
    /\ (/\ RegisteredByLastCall
        /\ OwnDeferredLoad
        /\ lastOpen'.op = "load"
        /\ lastOpen'.id = lastOpen.usedWindows[1]) =>
           waitListeners.issued \notin Range(completed')

\* C11: the marker of an open() call with a wait marker and one resulting
\* window is completed only at a later close or reload of that window, never
\* by the load this call performs on the window, also not when that load is
\* deferred until the unload of a reused, ready window finishes.
C11_MarkerOnlyAtCloseOrReload == [][WaitMarkerStep]_vars

----------------------------------------------------------------------------
(* The first folder window: C12 (under FirstSpec) *)

\* the last handler was an open() call with default flags and a single
\* folder target, made while no window was live
FirstFolderCall ==
    /\ lastOpen.op = "open"
    /\ lastOpen.before = <<>>
    /\ lastOpen.openConfig = [BaseConfig EXCEPT !.cli.args = lastOpen.openConfig.cli.args,
                                                !.initialStartup = lastOpen.openConfig.initialStartup]
    /\ Len(lastOpen.openConfig.cli.args) = 1
    /\ Len(lastOpen.targets) = 1
    /\ lastOpen.targets[1].folderUri # NoUri

\* one window was created, centered on the display, and shows the folder;
\* the recents sink got the folder and nothing else
OneCenteredFolderWindow ==
    /\ Len(lastOpen.created) = 1
    /\ Len(lastOpen.placeLog) = 1
    /\ lastOpen.placeLog[1].state =
           [x |-> lastOpen.env.display.x + (lastOpen.env.display.width - DefaultWindowSize.width) \div 2,
            y |-> lastOpen.env.display.y + (lastOpen.env.display.height - DefaultWindowSize.height) \div 2,
            mode |-> "normal"]
    /\ Len(WINDOWS) = 1
    /\ WINDOWS[1].id = lastOpen.created[1]
    /\ WINDOWS[1].openedFolderUri = lastOpen.targets[1].folderUri
    /\ Len(lastOpen.recents) = 1
    /\ lastOpen.recents[1].folderUri = lastOpen.targets[1].folderUri

----------------------------------------------------------------------------
(* Files to compare: C13 (under DiffSpec) *)

\* the file targets the last open() call resolved
FileTargets == SelectSeq(lastOpen.targets, LAMBDA path : path.fileUri # NoUri)

\* the files the last call handed to windows: with the configuration a window
\* loads (at once or after its unload) or with the message to a window in use
FilesDelivered ==
    [i \in 1..Len(lastOpen.loadLog) |->
        [id |-> lastOpen.loadLog[i].id,
         filesToOpenOrCreate |-> lastOpen.loadLog[i].configuration.filesToOpenOrCreate,
         filesToDiff |-> lastOpen.loadLog[i].configuration.filesToDiff]]
    \o [i \in 1..Len(lastOpen.deferred) |->
        [id |-> lastOpen.deferred[i].id,
         filesToOpenOrCreate |-> lastOpen.deferred[i].configuration.filesToOpenOrCreate,
         filesToDiff |-> lastOpen.deferred[i].configuration.filesToDiff]]
    \o [i \in 1..Len(lastOpen.sendLog) |->
        [id |-> lastOpen.sendLog[i].id,
         filesToOpenOrCreate |-> lastOpen.sendLog[i].fileInputs.filesToOpenOrCreate,
         filesToDiff |-> lastOpen.sendLog[i].fileInputs.filesToDiff]]

WithFiles == {i \in 1..Len(FilesDelivered) :
                 FilesDelivered[i].filesToOpenOrCreate # <<>> \/ FilesDelivered[i].filesToDiff # <<>>}

\* C13: with diffMode and exactly two file targets, one window is handed the
\* two files as the files to diff, with no file to open, and no other window
\* is handed a file; with diffMode and another number of files no window is
\* handed files to diff.
C13_TwoFilesMakeOneDiffPair ==
    (lastOpen.op = "open" /\ lastOpen.openConfig.diffMode) =>
        IF Len(FileTargets) = 2
        THEN /\ Cardinality(WithFiles) = 1
             /\ \A i \in WithFiles :
                    /\ FilesDelivered[i].filesToOpenOrCreate = <<>>
                    /\ Len(FilesDelivered[i].filesToDiff) = 2
                    /\ \A k \in 1..2 : FilesDelivered[i].filesToDiff[k].fileUri = FileTargets[k].fileUri
        ELSE \A i \in 1..Len(FilesDelivered) : FilesDelivered[i].filesToDiff = <<>>

\* C13 witness: code --diff /f.txt /g.txt handed the pair to one window
C13_Witness ==
    /\ lastOpen.op = "open"
    /\ lastOpen.openConfig.diffMode
    /\ Len(FileTargets) = 2
    /\ \E i \in WithFiles : Len(FilesDelivered[i].filesToDiff) = 2

----------------------------------------------------------------------------
(* Passing the focus when several windows result: C14 (under RestoreSpec) *)

\* the last open() call carried no explicit path arguments
NoExplicitPaths ==
    /\ lastOpen.openConfig.cli.args = <<>>
    /\ lastOpen.openConfig.cli.folderUris = <<>>
    /\ lastOpen.openConfig.cli.fileUris = <<>>
    /\ lastOpen.openConfig.urisToOpen = <<>>

\* the windows of the result that match the persisted last active window
UsedLastActive ==
    SelectSeq(lastOpen.usedWindows, LAMBDA id :
        /\ windowsState.lastActiveWindow # <<>>
        /\ SnapshotIdentity(toWindowState(WindowById(WINDOWS, id)))
               = SnapshotIdentity(windowsState.lastActiveWindow[1]))

\* the windows of the result that were asked for by the call, not restored
\* from the previous session or from backups
UsedNotRestored ==
    SelectSeq(lastOpen.usedWindows, LAMBDA id :
        /\ ~NoExplicitPaths
        /\ \E i \in 1..Len(lastOpen.pathsToOpen) :
               /\ lastOpen.pathsToOpen[i].workspace.id = WindowById(WINDOWS, id).openedWorkspace.id
               /\ lastOpen.pathsToOpen[i].folderUri = WindowById(WINDOWS, id).openedFolderUri)

\* the window the focus is to go to
FocusTarget ==
    IF NoExplicitPaths /\ UsedLastActive # <<>> THEN UsedLastActive[1]
    ELSE IF UsedNotRestored # <<>> THEN UsedNotRestored[Len(UsedNotRestored)]
    ELSE lastOpen.usedWindows[Len(lastOpen.usedWindows)]

\* C14: when more than one window results from an open() call, exactly one
\* window receives the focus of this phase: the one matching the persisted
\* last active window if it is among the results and the call carried no
\* explicit paths, otherwise the last one in result order that is not
\* restored, otherwise the last window of the result.
C14_FocusGoesToMostRelevant ==
    (lastOpen.op = "open" /\ Len(lastOpen.usedWindows) > 1) =>
        lastOpen.focusPass = <<FocusTarget>>

----------------------------------------------------------------------------
(* What is folded into the targets: C15 (under BackupSpec) *)

\* what a configuration, a snapshot or a backup names, without the authority
KeyOf(workspace, folderUri, slot) ==
    IF workspace.id # 0 THEN <<"workspace", workspace.id>>
    ELSE IF folderUri # NoUri THEN <<"folder", getComparisonKey(folderUri)>>
    ELSE <<"empty", slot>>

\* the configurations the last call made windows load, at once or after their unload
ConfigurationsOfCall ==
    {lastOpen.loadLog[i].configuration : i \in 1..Len(lastOpen.loadLog)}
        \cup {lastOpen.deferred[i].configuration : i \in 1..Len(lastOpen.deferred)}

OpenedKeys == {KeyOf(c.workspace, c.folderUri, c.backupPath.slot) : c \in ConfigurationsOfCall}

\* what the persisted session and the backup registry of the last call name
SessionKeys ==
    {KeyOf(o.workspace, o.folderUri, o.backupPath.slot) :
        o \in Range(windowsState.openedWindows) \cup Range(windowsState.lastActiveWindow)}

BackupKeys ==
    {<<"folder", getComparisonKey(lastOpen.env.backups.folders[i])>> : i \in 1..Len(lastOpen.env.backups.folders)}
        \cup {<<"workspace", w.workspace.id>> :
                 w \in Range(lastOpen.env.backups.workspaces) \cup Range(lastOpen.env.backups.untitled)}
        \cup {<<"empty", e.backupFolder>> : e \in Range(lastOpen.env.backups.empties)}

\* what the explicit targets of the last call name
ExplicitKeys ==
    IF NoExplicitPaths THEN {}
    ELSE {KeyOf(path.workspace, path.folderUri, 0) :
             path \in {x \in Range(lastOpen.pathsToOpen) : x.workspace.id # 0 \/ x.folderUri # NoUri}}

\* C15: an open() call that is not the initial startup opens nothing taken
\* from the persisted session or the backup registry, and an initial-startup
\* call with explicit targets opens only those targets.
C15_RestoreOnlyAtStartupWithoutTargets ==
    (lastOpen.op = "open" /\ (~lastOpen.openConfig.initialStartup \/ ~NoExplicitPaths)) =>
        /\ OpenedKeys \cap ((SessionKeys \cup BackupKeys) \ ExplicitKeys) = {}
        /\ ~NoExplicitPaths => \A k \in OpenedKeys : k \in ExplicitKeys

----------------------------------------------------------------------------
(* Backups at the application start: C16 (under BackupSpec) *)

\* the last call was the initial startup and did restore the backups
RestoringStartup ==
    /\ lastOpen.op = "open"
    /\ lastOpen.openConfig.initialStartup
    /\ lastOpen.openConfig.cli.extensionDevelopmentPath = ""
    /\ ~lastOpen.openConfig.cli.disableRestoreWindows

\* C16: an initial-startup open() that performs restore opens a window on
\* every folder, every workspace and every empty window the backup registry
\* reports.
C16_EveryBackupIsOpened ==
    RestoringStartup => BackupKeys \subseteq OpenedKeys

----------------------------------------------------------------------------
(* Recent entries: C17 (under DiffSpec) *)

\* what a target or a recent entry names
RecentKey(path) ==
    IF path.workspace.id # 0 THEN <<"workspace", path.workspace.id>>
    ELSE IF path.folderUri # NoUri THEN <<"folder", path.folderUri>>
    ELSE <<"file", path.fileUri>>

\* the targets of the last call that were resolved, so not dropped
ResolvedTargets ==
    {path \in Range(lastOpen.targets) :
        path.workspace.id # 0 \/ path.folderUri # NoUri \/ path.fileUri # NoUri}

ResolvedFiles ==
    {i \in 1..Len(lastOpen.targets) :
        /\ lastOpen.targets[i].workspace.id = 0
        /\ lastOpen.targets[i].folderUri = NoUri
        /\ lastOpen.targets[i].fileUri # NoUri}

\* the two files of the diff pair of the last call, if it made one
DiffPairOfCall ==
    IF lastOpen.openConfig.diffMode /\ Cardinality(ResolvedFiles) = 2
    THEN {lastOpen.targets[i] : i \in ResolvedFiles}
    ELSE {}

ReportedRecents == {RecentKey(lastOpen.recents[i]) : i \in 1..Len(lastOpen.recents)}

\* C17: after open() a resolved target is reported to the recents sink if and
\* only if it is not one of the two files of a diff pair and noRecentEntry is
\* not set; with noRecentEntry set nothing is reported.
C17_RecentsAreTheOpenedTargets ==
    lastOpen.op = "open" =>
        ReportedRecents =
            IF lastOpen.openConfig.noRecentEntry THEN {}
            ELSE {RecentKey(path) : path \in ResolvedTargets \ DiffPairOfCall}

----------------------------------------------------------------------------
(* Local targets and the remoteAuthority option: C18 (under ResolveSpec) *)

\* the last call named only local paths and file: URIs, and at least one
LocalInputsOnly ==
    /\ lastOpen.op = "open"
    /\ ~NoExplicitPaths
    /\ \A i \in 1..Len(lastOpen.openConfig.urisToOpen) : lastOpen.openConfig.urisToOpen[i].uri.scheme = "file"
    /\ \A i \in 1..Len(lastOpen.openConfig.cli.folderUris) : lastOpen.openConfig.cli.folderUris[i].scheme = "file"
    /\ \A i \in 1..Len(lastOpen.openConfig.cli.fileUris) : lastOpen.openConfig.cli.fileUris[i].scheme = "file"

\* the URI a resolved target names
TargetUri(path) ==
    IF path.workspace.id # 0 THEN path.workspace.configPath
    ELSE IF path.folderUri # NoUri THEN path.folderUri
    ELSE path.fileUri

\* a remote target: a remote-scheme URI tagged with a remote authority
IsRemoteTarget(path) ==
    path.remoteAuthority # "" /\ TargetUri(path).scheme = "vscode-remote"

\* the remoteAuthority option the resolver is given for the last call
RemoteOption ==
    IF lastOpen.openConfig.urisToOpen # <<>> THEN "" ELSE lastOpen.openConfig.cli.remote

\* C18 as the specification states it: a local path or file: URI is never
\* resolved to a remote target, also when a remoteAuthority option is supplied
C18_LocalTargetNeverRemote ==
    LocalInputsOnly => \A i \in 1..Len(lastOpen.targets) : ~IsRemoteTarget(lastOpen.targets[i])

\* C18: a local path or file: URI is resolved to a remote target exactly when
\* a remoteAuthority option is supplied to the resolver; the target is then a
\* remote URI of that authority with the path given, tagged with that authority
C18_LocalTargetRemoteOnlyByOption ==
    LocalInputsOnly =>
        \A i \in 1..Len(lastOpen.targets) :
            /\ IsRemoteTarget(lastOpen.targets[i]) <=> RemoteOption # ""
            /\ RemoteOption # "" =>
                   /\ lastOpen.targets[i].remoteAuthority = RemoteOption
                   /\ TargetUri(lastOpen.targets[i]).authority = RemoteOption

\* a path on disk was opened with the remote option and became a remote folder
C18_Witness ==
    /\ LocalInputsOnly
    /\ RemoteOption = "r1"
    /\ lastOpen.openConfig.cli.args = <<"/a">>
    /\ lastOpen.targets = <<[NoPath EXCEPT !.folderUri = RemoteUri("r1", "/a"), !.remoteAuthority = "r1"]>>
    /\ \E i \in 1..Len(WINDOWS) : WINDOWS[i].openedFolderUri = RemoteUri("r1", "/a")

----------------------------------------------------------------------------
(* A URI of another remote than the option names: C19 (under ResolveSpec) *)

\* the URIs the command line of the last call names, in the order they are resolved
UriInputs == lastOpen.openConfig.cli.folderUris \o lastOpen.openConfig.cli.fileUris

\* the last call came with an explicit remoteAuthority option and named URIs
\* that are not file: URIs, and nothing else
RemoteUrisWithOption ==
    /\ lastOpen.op = "open"
    /\ lastOpen.openConfig.urisToOpen = <<>>
    /\ ~lastOpen.openConfig.forceEmpty
    /\ lastOpen.openConfig.cli.remote # ""
    /\ lastOpen.openConfig.cli.args = <<>>
    /\ UriInputs # <<>>
    /\ \A i \in 1..Len(UriInputs) : UriInputs[i].scheme # "file"

\* the authority the specification has the target tagged with
TagOf(uri, option) == IF uri.authority # option THEN uri.authority ELSE option

\* C19: with an explicit remoteAuthority option, a URI whose own authority
\* disagrees with the option is resolved to a target tagged with the URI's own
\* authority, and every other URI to a target tagged with the option's.
C19_OwnAuthorityWinsOverOption ==
    RemoteUrisWithOption =>
        /\ Len(lastOpen.targets) = Len(UriInputs)
        /\ \A i \in 1..Len(UriInputs) :
               lastOpen.targets[i].remoteAuthority = TagOf(UriInputs[i], lastOpen.openConfig.cli.remote)

----------------------------------------------------------------------------
(* Targets that do not resolve: C20 (under ResolveSpec) *)

\* the call without the targets its resolver returns nothing for
resolvableOnly(openConfig) ==
    LET apiOptions == [NoParseOptions EXCEPT !.gotoLineMode = openConfig.gotoLineMode]
        cliOptions == [ignoreFileNotFound |-> TRUE, gotoLineMode |-> openConfig.cli.goto,
                       remoteAuthority |-> openConfig.cli.remote]
        apiResolves(u) == parseUri(u, apiOptions) # <<>>
        folderResolves(f) == parseUri(Openable("folderUri", f), cliOptions) # <<>>
        fileResolves(f) ==
            parseUri(Openable(IF hasWorkspaceFileExtension(f.path) THEN "workspaceUri" ELSE "fileUri", f),
                     cliOptions) # <<>>
        argResolves(a) == parsePath(a, cliOptions, FALSE) # <<>>
    IN  [openConfig EXCEPT !.urisToOpen = SelectSeq(@, apiResolves),
                           !.cli.folderUris = SelectSeq(@, folderResolves),
                           !.cli.fileUris = SelectSeq(@, fileResolves),
                           !.cli.args = SelectSeq(@, argResolves)]

\* the call names a target that does not resolve next to targets that do
DropsATarget(openConfig) ==
    /\ resolvableOnly(openConfig) # openConfig
    /\ IF openConfig.urisToOpen # <<>>
       THEN resolvableOnly(openConfig).urisToOpen # <<>>
       ELSE resolvableOnly(openConfig).cli.folderUris \o resolvableOnly(openConfig).cli.fileUris # <<>>
                \/ resolvableOnly(openConfig).cli.args # <<>>

\* an open() call with a target that does not resolve leaves what the same
\* call without that target leaves
DroppedTargetStep ==
    (lastOpen'.op = "open" /\ calls' = calls + 1 /\ DropsATarget(lastOpen'.openConfig)) =>
        \E R \in {open(HandlerState(lastOpen'.env), resolvableOnly(lastOpen'.openConfig), lastOpen'.env)} :
            /\ Commit(R.S)
            /\ lastOpen'.pathsToOpen = R.pathsToOpen
            /\ lastOpen'.usedWindows = R.usedWindows
            /\ lastOpen'.created = R.S.created
            /\ lastOpen'.loadLog = R.S.loadLog
            /\ lastOpen'.sendLog = R.S.sendLog
            /\ lastOpen'.focusLog = R.S.focusLog
            /\ lastOpen'.recents = R.S.recents

\* C20: a target that cannot be resolved is dropped and does not abort the
\* call: every other target of the call is resolved and opened exactly as if
\* the unresolvable target had not been supplied.
C20_UnresolvableTargetIsDropped == [][DroppedTargetStep]_vars

\* a call named a folder that is not on disk and the folder /a, and a window
\* was opened on /a
C20_Witness ==
    /\ lastOpen.op = "open"
    /\ lastOpen.openConfig.urisToOpen = <<MissingFolder, Openable("folderUri", FileUri("/a"))>>
    /\ Len(lastOpen.targets) = 1
    /\ lastOpen.targets[1].folderUri = FileUri("/a")
    /\ Len(lastOpen.loadLog) = 1
    /\ lastOpen.loadLog[1].configuration.folderUri = FileUri("/a")
    /\ \E i \in 1..Len(WINDOWS) : WINDOWS[i].openedFolderUri = FileUri("/a")

----------------------------------------------------------------------------
(* Paths on disk and paths that are missing: C21 (under ResolveSpec) *)

\* the local paths the last call names, in the order they are resolved
LocalInputs ==
    [i \in 1..Len(lastOpen.openConfig.urisToOpen) |-> lastOpen.openConfig.urisToOpen[i].uri.path]
        \o (IF lastOpen.openConfig.urisToOpen # <<>> THEN <<>>
            ELSE [i \in 1..Len(UriInputs) |-> UriInputs[i].path] \o lastOpen.openConfig.cli.args)

\* the last call named one local path and no remoteAuthority option
OneLocalPath ==
    /\ LocalInputsOnly
    /\ RemoteOption = ""
    /\ Len(LocalInputs) = 1
    /\ LocalInputs[1] # ""

\* ignoreFileNotFound is set by the command line and not by the API
IgnoreFileNotFound == lastOpen.openConfig.urisToOpen = <<>>

StatOfInput == statSync(normalize(LocalInputs[1]))

IsFileTarget(path) == path.fileUri # NoUri /\ path.folderUri = NoUri /\ path.workspace.id = 0
IsFolderTarget(path) == path.folderUri # NoUri /\ path.fileUri = NoUri /\ path.workspace.id = 0
IsWorkspaceTarget(path) == path.workspace.id # 0 /\ path.fileUri = NoUri /\ path.folderUri = NoUri

----------------------------------------------------------------------------
(* A host that fails to create a window: C22, C23 (under FailSpec) *)

\* the last open() call ended with the exception of a failed creation
CreationFailed == lastOpen.op = "open" /\ lastOpen.thrown

IdsBefore == [i \in 1..Len(lastOpen.before) |-> lastOpen.before[i].id]

IdsNow == [i \in 1..Len(WINDOWS) |-> WINDOWS[i].id]

\* C22: when the creation of a window throws, the registry has no record of
\* the failed window and no count-changed event was fired for it: the
\* registry holds the windows it held before the call and those the call
\* created before the failure, one event was fired for each of these, and a
\* call that did nothing before the failure leaves the registry as it was.
C22_FailedCreationLeavesRegistry ==
    CreationFailed =>
        /\ IdsNow = IdsBefore \o lastOpen.created
        /\ Len(lastOpen.created) = lastOpen.env.createThrows - 1
        /\ Len(lastOpen.fired) = Len(lastOpen.created)
        /\ \A i \in 1..Len(lastOpen.fired) :
               lastOpen.fired[i] = [oldCount |-> Len(lastOpen.before) + i - 1, newCount |-> Len(lastOpen.before) + i]
        /\ (lastOpen.created = <<>> /\ lastOpen.focusLog = <<>>) => WINDOWS = lastOpen.before

\* a call for a folder in a new window failed at its first creation while a
\* window was open
C22_Witness ==
    /\ CreationFailed
    /\ lastOpen.openConfig.cli.args = <<"/a">>
    /\ lastOpen.env.createThrows = 1
    /\ Len(lastOpen.before) = 1
    /\ WINDOWS = lastOpen.before

\* C23: when the creation of the window for one target of a call fails, the
\* call still returns the windows it created or reused for the other targets.
C23_PartialResultIsReturned ==
    CreationFailed => Range(lastOpen.created) \subseteq Range(lastOpen.usedWindows)

----------------------------------------------------------------------------
(* New window or reuse: C24 (under DecideSpec) *)

\* the decisions for the flags of the last call under every setting, platform,
\* context and preference
DecisionsElsewhere ==
    {shouldOpenNewWindow([lastOpen.openConfig EXCEPT !.context = context, !.userEnvTermProgram = term,
                                                     !.preferNewWindow = prefer],
                         [lastOpen.env EXCEPT !.openFoldersInNewWindow = folders,
                                              !.openFilesInNewWindow = files,
                                              !.isMacintosh = mac]) :
        context \in OpenContexts, term \in {"", "vscode"}, prefer \in BOOLEAN,
        folders \in FolderSettings, files \in FileSettings, mac \in BOOLEAN}

\* the last call named one target no window showed, while a window was open
OneUnmatchedTarget ==
    /\ lastOpen.op = "open"
    /\ Len(lastOpen.openConfig.cli.args) = 1
    /\ Len(lastOpen.targets) = 1
    /\ lastOpen.before # <<>>
    /\ lastOpen.targets[1].folderUri # NoUri => findWindowOnFolderUri(lastOpen.before, lastOpen.targets[1].folderUri) = 0

\* C24: with forceReuseWindow neither folders nor files open in a new
\* window and with forceNewWindow alone both do; the settings and the context
\* make no difference to the decision when one of the two flags is set.  A
\* call for one unmatched target creates no window with forceReuseWindow and
\* one window with forceNewWindow alone.
C24_FlagsGovernNewWindow ==
    lastOpen.op = "open" =>
        /\ lastOpen.openConfig.forceReuseWindow =>
               /\ DecisionsElsewhere = {[openFolderInNewWindow |-> FALSE, openFilesInNewWindow |-> FALSE]}
               /\ OneUnmatchedTarget => lastOpen.created = <<>>
        /\ (lastOpen.openConfig.forceNewWindow /\ ~lastOpen.openConfig.forceReuseWindow) =>
               /\ DecisionsElsewhere = {[openFolderInNewWindow |-> TRUE, openFilesInNewWindow |-> TRUE]}
               /\ OneUnmatchedTarget => Len(lastOpen.created) = 1

\* with the setting to open folders in new windows, a call with
\* forceReuseWindow loaded its folder into the window that was open
C24_Witness ==
    /\ OneUnmatchedTarget
    /\ lastOpen.openConfig.forceReuseWindow
    /\ ~lastOpen.openConfig.forceNewWindow
    /\ lastOpen.env.openFoldersInNewWindow = "on"
    /\ lastOpen.targets[1].folderUri = FileUri("/a")
    /\ lastOpen.created = <<>>
    /\ Len(lastOpen.loadLog) + Len(lastOpen.deferred) = 1

----------------------------------------------------------------------------
(* Extension development hosts and later calls: C25 (under HostReuseSpec) *)

\* the windows the last call loaded a target into, at once or after their unload
LoadedByCall ==
    {lastOpen.loadLog[i].id : i \in 1..Len(lastOpen.loadLog)}
        \cup {lastOpen.deferred[i].id : i \in 1..Len(lastOpen.deferred)}

\* the extension development hosts that were open when the last call came,
\* other than the host of the path the call names
OtherHostsBefore ==
    {lastOpen.before[i].id : i \in {j \in 1..Len(lastOpen.before) :
        /\ isExtensionDevelopmentHost(lastOpen.before[j])
        /\ lastOpen.before[j].extensionDevelopmentPath # lastOpen.openConfig.cli.extensionDevelopmentPath}}

\* C25: an open() call from the command line or the API loads no target into
\* an existing extension development host, unless the call names the
\* extension development path of that window.
C25_HostIsNotReused ==
    (lastOpen.op = "open" /\ lastOpen.openConfig.context \in {"CLI", "API"}) =>
        LoadedByCall \cap OtherHostsBefore = {}

----------------------------------------------------------------------------
(* Fullscreen for new windows: C26 (under FullscreenSpec) *)

\* what allows the fullscreen of a window the last call created: the stored
\* state restored for it asked for fullscreen, the setting is "fullscreen",
\* the setting is "inherit" and the last active window was in fullscreen, or
\* the application was restarted after an update
FullscreenGround(p) ==
    \/ ~p.hasDefaultState /\ p.requested = "fullscreen"
    \/ lastOpen.env.newWindowDimensions = "fullscreen"
    \/ lastOpen.env.newWindowDimensions = "inherit" /\ p.lastActiveMode = "fullscreen"
    \/ lastOpen.env.wasRestarted

\* C26: a window that is created in fullscreen has one of the grounds for it,
\* and a fullscreen request without any of them is downgraded to normal.
C26_FullscreenOnlyOnGrounds ==
    lastOpen.op = "open" =>
        \A i \in 1..Len(lastOpen.placeLog) :
            /\ lastOpen.placeLog[i].state.mode = "fullscreen" => FullscreenGround(lastOpen.placeLog[i])
            /\ (lastOpen.placeLog[i].requested = "fullscreen" /\ ~FullscreenGround(lastOpen.placeLog[i])) =>
                   lastOpen.placeLog[i].state.mode = "normal"
            /\ WindowById(WINDOWS, lastOpen.placeLog[i].id).uiState.mode = lastOpen.placeLog[i].state.mode

\* a window was created in fullscreen because the setting is "inherit" and
\* the last active window was in fullscreen
C26_Witness ==
    /\ lastOpen.op = "open"
    /\ lastOpen.env.newWindowDimensions = "inherit"
    /\ Len(lastOpen.placeLog) = 1
    /\ lastOpen.placeLog[1].hasDefaultState
    /\ lastOpen.placeLog[1].lastActiveMode = "fullscreen"
    /\ WindowById(WINDOWS, lastOpen.placeLog[1].id).uiState.mode = "fullscreen"

----------------------------------------------------------------------------
(* When a candidate position is shifted: C27 (under PlaceSpec) *)

\* C27: a candidate position is shifted only while a live window has its
\* top-left at the candidate in both x and y: a new window whose computed
\* default position is the top-left of no live window is put there unchanged,
\* also when a live window shares only x or only y with it.
C27_ShiftOnlyOnSameCorner ==
    lastOpen.op = "open" =>
        \A p \in PlacedWithoutOverlap :
            LET default == centeredState(lastOpen.env.display)
            IN  (\A b \in p.live : <<b.x, b.y>> # <<default.x, default.y>>) =>
                    /\ p.shifts = 0
                    /\ p.state.x = default.x
                    /\ p.state.y = default.y

----------------------------------------------------------------------------
(* The configuration the caller passes: C28 (under AddSpec) *)

\* C28: open() does not modify the configuration it is given: after the call
\* every field of the caller's object has the value it had before.
C28_ConfigurationIsNotModified ==
    lastOpen.op = "open" => lastOpen.configAfter = lastOpen.openConfig

----------------------------------------------------------------------------
(* What a window snapshot names: C29 (under SnapshotSpec) *)

\* the snapshots of onBeforeWindowClose, and those onBeforeShutdown has stored
CapturedSnapshots ==
    Range(windowsState.openedWindows) \cup Range(windowsState.lastActiveWindow)
        \cup Range(windowsState.lastPluginDevelopmentHostWindow) \cup Range(lastClosedWindowState)
        \cup Range(restoreWindowsState(stored).openedWindows)
        \cup Range(restoreWindowsState(stored).lastActiveWindow)
        \cup Range(restoreWindowsState(stored).lastPluginDevelopmentHostWindow)

\* which of workspace, folderUri and backup slot a snapshot has set
IdentityFieldsSet(o) ==
    {f \in {"workspace", "folderUri", "backupPath"} :
        \/ f = "workspace" /\ o.workspace.id # 0
        \/ f = "folderUri" /\ o.folderUri # NoUri
        \/ f = "backupPath" /\ o.backupPath # NoBackup}

\* C29: every window snapshot captured at window close or at shutdown has at
\* most one of workspace, folderUri and backup slot set.
C29_SnapshotNamesAtMostOneIdentity ==
    \A o \in CapturedSnapshots : Cardinality(IdentityFieldsSet(o)) <= 1

\* the backup a window of this workspace, folder or empty-window slot is
\* registered with
BackupRegisteredFor(o) ==
    IF o.workspace.id # 0 THEN registerWorkspaceBackupSync(o.workspace)
    ELSE IF o.folderUri # NoUri THEN registerFolderBackupSync(o.folderUri)
    ELSE EmptyBackupPath(o.backupPath.slot)

\* C29 (amended): a snapshot never has both workspace and folderUri set; the
\* backup path is set for every window registered for backups, and it is the
\* backup of the snapshot's workspace, else of its folder, else the slot of an
\* empty window.
C29_SnapshotNamesWorkspaceOrFolder ==
    \A o \in CapturedSnapshots :
        /\ ~(o.workspace.id # 0 /\ o.folderUri # NoUri)
        /\ o.backupPath # NoBackup => o.backupPath = BackupRegisteredFor(o)

\* snapshots of a folder window and of a workspace window, each with its backup path
C29_Witness ==
    /\ \E o \in CapturedSnapshots : o.folderUri # NoUri /\ o.backupPath # NoBackup
    /\ \E o \in CapturedSnapshots : o.workspace.id # 0 /\ o.backupPath # NoBackup

----------------------------------------------------------------------------
(* What a PathToOpen names: C30 (under PathSpec) *)

\* which of folderUri, workspace and fileUri a PathToOpen has set
TargetFieldsSet(path) ==
    {f \in {"folderUri", "workspace", "fileUri"} :
        \/ f = "folderUri" /\ path.folderUri # NoUri
        \/ f = "workspace" /\ path.workspace.id # 0
        \/ f = "fileUri" /\ path.fileUri # NoUri}

\* the PathToOpen entries of the last call: as they were resolved or restored,
\* and after several folders became one workspace
ProducedPaths == Range(lastOpen.targets) \cup Range(lastOpen.pathsToOpen)

\* C30: every PathToOpen produced by path resolution, URI resolution, session
\* restore or the coalescing of several folders has at most one of folderUri,
\* workspace and fileUri set.
C30_PathNamesAtMostOneTarget ==
    lastOpen.op = "open" => \A path \in ProducedPaths : Cardinality(TargetFieldsSet(path)) <= 1

\* a start that restores the untitled workspace several folders were made
\* into in the session before
C30_Witness ==
    /\ lastOpen.op = "open"
    /\ lastOpen.openConfig.initialStartup
    /\ session > 1
    /\ \E path \in ProducedPaths : path.workspace.id \in UntitledIds

----------------------------------------------------------------------------
(* Folders added to the window that is open: C31 (under AddSpec) *)

\* the 'vscode:addFolders' requests the last call sent
AddRequests == SelectSeq(lastOpen.sendLog, LAMBDA m : m.channel = "vscode:addFolders")

\* the last call had addMode set and folder targets
AddModeCall ==
    /\ lastOpen.op = "open"
    /\ lastOpen.openConfig.addMode
    /\ FolderTargets # <<>>

\* the windows of the folders' remote authority that were open before the call
WindowsOfFolders ==
    SelectSeq(lastOpen.before, LAMBDA w : w.remoteAuthority = FolderTargets[1].remoteAuthority)

\* the folders went to the last active window of their authority in one
\* request, that window got the focus and no window was created
FoldersWereAdded ==
    /\ lastOpen.created = <<>>
    /\ Len(AddRequests) = 1
    /\ AddRequests[1].id = lastActiveOf(WindowsOfFolders)
    /\ AddRequests[1].foldersToAdd = SeqMap(folderUriOf, FolderTargets)
    /\ AddRequests[1].id \in Range(lastOpen.focusLog)

\* the folders were opened as without addMode: nothing was added, and each
\* target of the call was loaded into a window
FoldersWereOpened ==
    /\ AddRequests = <<>>
    /\ ~lastOpen.configAfter.addMode
    /\ \A path \in Range(lastOpen.pathsToOpen) :
           \E l \in Range(lastOpen.loadLog) \cup {[id |-> d.id, configuration |-> d.configuration] : d \in Range(lastOpen.deferred)} :
               /\ l.configuration.folderUri = path.folderUri
               /\ l.configuration.workspace.id = path.workspace.id

\* C31: with addMode set, not on initial startup and with a live window, the
\* folder targets create no window and go as one add-folders request to the
\* last active window of their remote authority, which is focused; on initial
\* startup or without a live window addMode is off and the folders are opened
\* as ordinary folder targets.
C31_AddModeAddsToLastActive ==
    AddModeCall =>
        IF ~lastOpen.openConfig.initialStartup /\ lastOpen.before # <<>>
        THEN FoldersWereAdded
        ELSE FoldersWereOpened

\* the same for the calls whose folders have a live window of their authority
C31_AddModeWithWindowOfAuthority ==
    (AddModeCall /\ (lastOpen.openConfig.initialStartup \/ lastOpen.before = <<>> \/ WindowsOfFolders # <<>>)) =>
        IF ~lastOpen.openConfig.initialStartup /\ lastOpen.before # <<>>
        THEN FoldersWereAdded
        ELSE FoldersWereOpened

----------------------------------------------------------------------------
(* The windows of the last session under each setting: C32 (under PolicySpec) *)

\* the last handler was an open() call without explicit targets
RestoreCall ==
    /\ lastOpen.op = "open"
    /\ lastOpen.openConfig.urisToOpen = <<>>
    /\ ~lastOpen.openConfig.forceEmpty
    /\ lastOpen.openConfig.cli.args = <<>>
    /\ lastOpen.openConfig.cli.folderUris = <<>>
    /\ lastOpen.openConfig.cli.fileUris = <<>>

\* the snapshots the setting lets the call read
SnapshotsUnder(policy) ==
    IF policy = "none" THEN <<>>
    ELSE IF policy = "one" THEN windowsState.lastActiveWindow
    ELSE windowsState.openedWindows \o windowsState.lastActiveWindow

\* the snapshots the setting restores: folders and workspaces, and except
\* under 'folders' the local empty windows with a backup slot
RestoredUnder(policy) ==
    SelectSeq(SnapshotsUnder(policy),
              LAMBDA o : \/ o.workspace.id # 0
                         \/ o.folderUri # NoUri
                         \/ policy # "folders" /\ o.backupPath # NoBackup /\ o.remoteAuthority = "")

PathIdentity(path) == IdentityOf(path.workspace, path.folderUri, path.backupPath, path.remoteAuthority)

\* C32: a call without explicit targets restores, under 'none', one empty
\* window; under 'one', the lastActiveWindow snapshot; under 'folders', the
\* folder and workspace snapshots of openedWindows and lastActiveWindow; under
\* 'all', also the local empty windows with a backup slot; and one empty window
\* whenever nothing restorable results.
C32_RestoredTargetsFollowPolicy ==
    RestoreCall =>
        LET restored == RestoredUnder(lastOpen.env.restoreWindows)
        IN  IF restored = <<>>
            THEN lastOpen.targets = <<NoPath>>
            ELSE SeqMap(PathIdentity, lastOpen.targets) = SeqMap(SnapshotIdentity, restored)

\* a start under 'folders' after a session with a folder window and an empty
\* window that has a backup slot
C32_Witness ==
    /\ RestoreCall
    /\ lastOpen.env.restoreWindows = "folders"
    /\ \E o \in Range(SnapshotsUnder("folders")) : o.folderUri # NoUri
    /\ \E o \in Range(SnapshotsUnder("folders")) :
           o.workspace.id = 0 /\ o.folderUri = NoUri /\ o.backupPath # NoBackup /\ o.remoteAuthority = ""

----------------------------------------------------------------------------
(* One reuse per call: C33 (under MultiSpec) *)

\* the windows that were open before the last call
BeforeIds == {lastOpen.before[i].id : i \in 1..Len(lastOpen.before)}

\* the loads of the last call into windows that were open before it: those
\* done at once, by their place in the load log, and those deferred
ReusedLoadsAtOnce == {i \in 1..Len(lastOpen.loadLog) : lastOpen.loadLog[i].id \in BeforeIds}

ReusedConfigurations ==
    {lastOpen.loadLog[i].configuration : i \in ReusedLoadsAtOnce}
        \cup {d.configuration : d \in Range(lastOpen.deferred)}

\* the windows the last call found showing a workspace or a folder it was
\* asked for, and sent the files to
MatchedWindows ==
    {m.id : m \in {x \in Range(lastOpen.sendLog) : x.channel = "vscode:openFiles" /\ x.id \in BeforeIds}}

MatchedWorkspace ==
    \E id \in MatchedWindows : WindowById(lastOpen.before, id).openedWorkspace.id # 0

MatchedFolder ==
    \E id \in MatchedWindows : WindowById(lastOpen.before, id).openedFolderUri # NoUri

\* C33: within one open() call at most one target is loaded into a window that
\* was open before; that load is the first load of the call; after a workspace
\* was matched to a live window no target is loaded into a window that was open
\* before, and after a folder was matched no folder or empty-window target is.
C33_OneReusePerCall ==
    lastOpen.op = "open" =>
        /\ Cardinality(ReusedLoadsAtOnce) + Len(lastOpen.deferred) <= 1
        /\ ReusedLoadsAtOnce \subseteq {1}
        /\ lastOpen.deferred # <<>> => \A i \in 1..Len(lastOpen.loadLog) : lastOpen.loadLog[i].id \in Range(lastOpen.created)
        /\ MatchedWorkspace => ReusedConfigurations = {}
        /\ MatchedFolder => \A c \in ReusedConfigurations : c.workspace.id # 0

\* a folder of the call was matched to a live window, another live window did
\* not show any target, and the other folder was opened in a new window
C33_Witness ==
    /\ lastOpen.op = "open"
    /\ MatchedFolder
    /\ Len(lastOpen.before) >= 2
    /\ lastOpen.created # <<>>
    /\ \E l \in Range(lastOpen.loadLog) : l.id \in Range(lastOpen.created) /\ l.configuration.folderUri # NoUri

----------------------------------------------------------------------------
(* The state of the last closed window: C34 (under QuitSpec) *)

\* the last handler was an open() call that created a window
OpenedAWindow == lastOpen.op = "open" /\ lastOpen.created # <<>>

\* the last active window that was stored is the state of a window that was
\* open at the shutdown
StoredLastActiveIsLive ==
    \E w \in Range(lastOpen.before) :
        stored.lastActiveWindow = <<serializedWindowState(toWindowState(w))>>

\* C34: the remembered state of the last closed window is reset whenever a
\* window is created; while it is remembered the only window there can be is the
\* closing window it was taken from; and a shutdown with windows open stores, as
\* lastActiveWindow, the state of one of the live windows.
C34_LastClosedStateIsReset ==
    /\ OpenedAWindow => lastClosedWindowState = <<>>
    /\ (lastClosedWindowState # <<>> /\ WINDOWS # <<>>) =>
           /\ Len(WINDOWS) = 1
           /\ WINDOWS[1].closing
           /\ lastClosedWindowState = <<toWindowState(WINDOWS[1])>>
    /\ (lastOpen.op = "shutdown" /\ lastOpen.before # <<>>) => StoredLastActiveIsLive

\* a window is created after the last window was closed and its state remembered
C34_Witness ==
    /\ OpenedAWindow
    /\ lastOpen.before = <<>>
    /\ lastOpen.lastClosedBefore # <<>>
    /\ ~lastOpen.openConfig.initialStartup

----------------------------------------------------------------------------
(* Targets of one call and the windows they end in: C35 (under MultiSpec) *)

\* the workspace and folder targets of the last call
RequestedTargets ==
    {path \in Range(lastOpen.pathsToOpen) : path.workspace.id # 0 \/ path.folderUri # NoUri}

\* the loads that wait for the unload of window id
PendingFor(id) == SelectSeq(pendingLoads, LAMBDA l : l.id = id)

\* what window id shows once its deferred loads have completed without a veto
ShownAfterLoads(id) ==
    IF PendingFor(id) # <<>>
    THEN [workspace |-> PendingFor(id)[Len(PendingFor(id))].configuration.workspace,
          folderUri |-> PendingFor(id)[Len(PendingFor(id))].configuration.folderUri]
    ELSE [workspace |-> WindowById(WINDOWS, id).openedWorkspace,
          folderUri |-> WindowById(WINDOWS, id).openedFolderUri]

EndsInAWindow(path) ==
    \E i \in 1..Len(WINDOWS) :
        /\ ShownAfterLoads(WINDOWS[i].id).workspace.id = path.workspace.id
        /\ path.folderUri # NoUri => isEqual(ShownAfterLoads(WINDOWS[i].id).folderUri, path.folderUri)
        /\ path.folderUri = NoUri => ShownAfterLoads(WINDOWS[i].id).folderUri = NoUri

\* C35: for every open() call with distinct workspace and folder targets, made
\* while no load of an earlier call is waiting, each requested target is shown
\* in a window of its own once the deferred loads have completed without a veto.
C35_EveryTargetEndsInAWindow ==
    (lastOpen.op = "open" /\ ~lastOpen.openConfig.addMode /\ pendingLoads = lastOpen.deferred) =>
        \A path \in RequestedTargets : EndsInAWindow(path)

----------------------------------------------------------------------------
(* The windows an open() call returns: C36 (under AddSpec) *)

\* the last call was driven by CLI arguments, by forceEmpty or by the restore
\* of the last session, and returned
CliEmptyOrRestoreCall ==
    /\ lastOpen.op = "open"
    /\ lastOpen.openConfig.urisToOpen = <<>>
    /\ ~lastOpen.thrown

\* C36: every open() call driven by CLI arguments, by forceEmpty or by session
\* restore returns a non-empty list of windows.
C36_ReturnsAWindow ==
    CliEmptyOrRestoreCall => lastOpen.usedWindows # <<>>

\* the same for the calls that do not add folders to a window
C36_ReturnsAWindowWithoutAddMode ==
    (CliEmptyOrRestoreCall /\ ~lastOpen.configAfter.addMode) => lastOpen.usedWindows # <<>>

----------------------------------------------------------------------------
(* The window that gets the files of a call: C37 (under BatchSpec) *)

\* the remote authority of the window that entry i of FilesDelivered went to:
\* of the configuration it loads, or of the window in use the message went to
AuthorityDelivered(i) ==
    IF i <= Len(lastOpen.loadLog) THEN lastOpen.loadLog[i].configuration.remoteAuthority
    ELSE IF i <= Len(lastOpen.loadLog) + Len(lastOpen.deferred)
    THEN lastOpen.deferred[i - Len(lastOpen.loadLog)].configuration.remoteAuthority
    ELSE WindowById(WINDOWS, FilesDelivered[i].id).remoteAuthority

\* the last call resolved file targets and returned
FileBatchCall ==
    /\ lastOpen.op = "open"
    /\ ~lastOpen.thrown
    /\ FileTargets # <<>>

\* C37: the files of one open() call, all of them or the pair to diff, are
\* handed to exactly one window, and the remote authority of that window is
\* the one of the batch, which is the one of its first file.
C37_FileBatchGoesToOneWindow ==
    FileBatchCall =>
        /\ Cardinality(WithFiles) = 1
        /\ \A i \in WithFiles :
               /\ FilesDelivered[i].filesToDiff \o FilesDelivered[i].filesToOpenOrCreate = FileTargets
               /\ AuthorityDelivered(i) = FileTargets[1].remoteAuthority

\* a local file came with a folder of remote authority r1: the folder window
\* did not take the file, and a local empty window was opened for it
C37_Witness ==
    /\ FileBatchCall
    /\ \E path \in Range(lastOpen.targets) : path.folderUri # NoUri /\ path.remoteAuthority # FileTargets[1].remoteAuthority
    /\ \E i \in WithFiles :
           /\ i <= Len(lastOpen.loadLog)
           /\ lastOpen.loadLog[i].configuration.folderUri = NoUri
           /\ lastOpen.loadLog[i].configuration.workspace.id = 0
           /\ lastOpen.loadLog[i].configuration.remoteAuthority = ""

----------------------------------------------------------------------------
(* The record that a closed event removes: C38 (under CloseSpec) *)

\* the list before the closed event without the records of the closed window
WithoutClosed == SelectSeq(lastOpen.before, LAMBDA w : w.id # lastOpen.id)

\* C38: the handler of a window's closed event removes the record of that
\* window and no other one; when the window has no record in the list, as for
\* a closed event that comes a second time, the list stays as it was.
C38_ClosedRemovesOnlyThatRecord ==
    lastOpen.op = "closed" => WINDOWS = NormalizeFocus(WithoutClosed)

\* the part that holds: the closed event of a window that has a record
C38_ClosedRemovesRecordInList ==
    (lastOpen.op = "closed" /\ HasWindow(lastOpen.before, lastOpen.id)) =>
        WINDOWS = NormalizeFocus(WithoutClosed)

\* a closed event came for a window without a record while others were open
C38_ClosedTwice ==
    /\ lastOpen.op = "closed"
    /\ ~HasWindow(lastOpen.before, lastOpen.id)
    /\ lastOpen.before # <<>>

----------------------------------------------------------------------------
(* Extension development host windows in the snapshot written at shutdown: *)
(* C39 (under HostQuitSpec)                                                 *)

\* the states of the extension development host windows in the list at shutdown
HostWindowStates ==
    {toWindowState(lastOpen.before[i]) :
        i \in {j \in 1..Len(lastOpen.before) : isExtensionDevelopmentHost(lastOpen.before[j])}}

\* the persisted snapshot as the next start reads it
PersistedState == restoreWindowsState(stored)

\* C39: the snapshot written at shutdown holds no extension development host
\* window as a normal window: none of its openedWindows and not its
\* lastActiveWindow is the state of such a window.
C39_NoHostWindowPersistedAsNormal ==
    lastOpen.op = "shutdown" =>
        /\ \A o \in Range(PersistedState.openedWindows) : o \notin HostWindowStates
        /\ \A o \in Range(PersistedState.lastActiveWindow) : o \notin HostWindowStates

\* the part that holds: the openedWindows of the snapshot
C39_OpenedWindowsHaveNoHost ==
    lastOpen.op = "shutdown" =>
        \A o \in Range(PersistedState.openedWindows) : o \notin HostWindowStates

\* the application quit while an extension development host window was the
\* only window and was closing
C39_HostClosedLast ==
    /\ lastOpen.op = "shutdown"
    /\ Len(lastOpen.before) = 1
    /\ isExtensionDevelopmentHost(lastOpen.before[1])
    /\ lastOpen.before[1].closing
    /\ lastOpen.lastClosedBefore # <<>>

----------------------------------------------------------------------------
(* The restored windows state during open(): C40 (under FullscreenSpec) *)

\* the step is an open() call
OpenStep == lastOpen'.op = "open" /\ calls' = calls + 1

\* C40: an open() call that creates a window leaves the restored windows
\* state in memory as it was: the uiState, and so the mode, of its
\* lastActiveWindow, of its extension development host snapshot and of each
\* of its openedWindows, also when the fullscreen mode of a restored state
\* is not allowed for the new window.
C40_OpenKeepsWindowsState ==
    [][OpenStep => windowsState' = windowsState]_vars

\* the part that holds: a call changes nothing but the mode of stored states
C40_OpenKeepsAllButMode ==
    [][OpenStep =>
        /\ Len(windowsState'.openedWindows) = Len(windowsState.openedWindows)
        /\ \A i \in 1..Len(windowsState.openedWindows) :
               [windowsState'.openedWindows[i] EXCEPT !.uiState.mode = "normal"]
                   = [windowsState.openedWindows[i] EXCEPT !.uiState.mode = "normal"]
        /\ Len(windowsState'.lastActiveWindow) = Len(windowsState.lastActiveWindow)
        /\ \A i \in 1..Len(windowsState.lastActiveWindow) :
               [windowsState'.lastActiveWindow[i] EXCEPT !.uiState.mode = "normal"]
                   = [windowsState.lastActiveWindow[i] EXCEPT !.uiState.mode = "normal"]
        /\ windowsState'.lastPluginDevelopmentHostWindow = windowsState.lastPluginDevelopmentHostWindow]_vars

\* a window was created from a restored state whose fullscreen mode was denied
C40_FullscreenDenied ==
    /\ lastOpen.op = "open"
    /\ lastOpen.created # <<>>
    /\ \E i \in 1..Len(lastOpen.placeLog) :
           /\ lastOpen.placeLog[i].from \in {"lastActive", "opened"}
           /\ lastOpen.placeLog[i].requested = "fullscreen"
           /\ lastOpen.placeLog[i].state.mode = "normal"

====
